---- MODULE Spec2Model ----
(***************************************************************************)
(* Transaction verification core of xelis-blockchain                       *)
(* (xelis_common/src/transaction/verify/mod.rs) over an in-memory          *)
(* BlockchainVerificationState adapter.                                    *)
(*                                                                         *)
(* Ciphertexts are modelled by the plaintext amounts they encrypt (the     *)
(* ElGamal scheme is additively homomorphic, so += and -= on ciphertexts   *)
(* are + and - on the amounts). The sigma proofs, the range proof and the  *)
(* signatures are external library code: a transaction carries, for each   *)
(* of them, the verdict that library returns.                              *)
(***************************************************************************)
EXTENDS Integers, Sequences, FiniteSets, TLC

VARIABLES
    state,      \* the adapter: nonces, balances, sender outputs, multisig configs
    pre_state,  \* the adapter as the last operation found it
    op,         \* the last operation called ("none" before the first)
    input,      \* the transactions it was called with
    result,     \* the Result it returned
    calls,      \* the adapter calls it issued, in order
    events,     \* the pre_verify returns and proof checks it made, in order
    prepared,   \* the (transcript, commitments) of each pre-verified transaction
    transcript, \* the labelled appends made to the transcript of the last transaction
    steps,      \* the number of operations run on the adapter
    rerun,      \* the outcome of a second run of the last operation, if one was made
    versioned,  \* a VersionedState of the storage cache
    marked,     \* the values it has had: the first, then one per mark_updated call
    written,    \* the Versioned<T> handed to write, the bytes in the Writer, size()
    readback,   \* what read made of those bytes
    context,    \* the VM Context of a contract invocation: a ChainState, or none
    entered,    \* the Context as it was when the VM entered the contract
    backing,    \* the ContractStorage behind the invocation
    trace,      \* the native calls the contract made, with what they returned
    replay      \* the Context and the returns of a second execution of the same calls

verifier_vars ==
    <<state, pre_state, op, input, result, calls, events, prepared, transcript,
      steps, rerun>>
versioned_vars == <<versioned, marked>>
wire_vars == <<written, readback>>
contract_vars == <<context, entered, backing, trace, replay>>

vars == <<verifier_vars, versioned_vars, wire_vars, contract_vars>>

(***************************************************************************)
(* Bounds of the model                                                     *)
(***************************************************************************)
\* largest nonce a transaction or an account starts with
MaxNonce == 1
\* largest plaintext amount of a transfer or a burn
MaxAmount == 2
\* largest fee
MaxFee == 1
\* longest transfer list drawn
MaxTransfers == 2
\* longest batch handed to verify_batch
MaxBatch == 2
\* the adapter call that fails is one of the first MaxFailAt of an operation
MaxFailAt == 10
\* longest sequence of operations run on one adapter
MaxSteps == 3
MaxTopoheight == 11
MaxMarks == 4
\* the integers put on the wire have two significant bytes, each 0..MaxWire
MaxWire == 2
\* most native calls one contract invocation makes
MaxCalls == 3
\* the balance every sender account starts with
InitBalance == 100

(***************************************************************************)
(* Program constants. Their values are set in xelis_common::transaction    *)
(* and xelis_common::crypto, outside the verifier; the verifier only       *)
(* compares against them, so the model keeps them small.                   *)
(***************************************************************************)
MAX_TRANSFER_COUNT == 2
EXTRA_DATA_LIMIT_SIZE == 2
EXTRA_DATA_LIMIT_SUM_SIZE == 3
MAX_MULTISIG_PARTICIPANTS == 2
SIGNATURE_SIZE == 64

XELIS_ASSET == "XELIS"

\* Account keys. INVALID_POINT is a compressed key that does not decompress.
Keys == {"alice", "bob"}
INVALID_POINT == "invalid_point"
AllKeys == Keys \cup {INVALID_POINT}
Assets == {XELIS_ASSET, "TOKEN"}
References == {"ref_a", "ref_b"}
\* A signature names the key that produced it; FORGED verifies under no key.
FORGED == "forged"

(***************************************************************************)
(* VerificationError<E> (mod.rs 54-84). Ok is the Ok(..) result.           *)
(***************************************************************************)
Err(tag) == [tag |-> tag, detail |-> "", got |-> 0, expected |-> 0]
Ok == Err("Ok")
InvalidNonce(got, expected) ==
    [tag |-> "InvalidNonce", detail |-> "", got |-> got, expected |-> expected]
Proof(detail) == [tag |-> "Proof", detail |-> detail, got |-> 0, expected |-> 0]

(***************************************************************************)
(* Option<MultiSigPayload>                                                 *)
(***************************************************************************)
NoMultiSig == [some |-> FALSE, threshold |-> 0, participants |-> <<>>]
SomeMultiSig(threshold, participants) ==
    [some |-> TRUE, threshold |-> threshold, participants |-> participants]

(***************************************************************************)
(* The adapter: an in-memory BlockchainVerificationState (spec 4.2).       *)
(* A context c carries the adapter state through one operation together    *)
(* with the log of the adapter calls issued, the sigma BatchCollector, the *)
(* transcript of the transaction being verified and the error raised.      *)
(* The fail_at-th adapter call of the operation returns Err(E) and changes *)
(* nothing (fail_at = 0: the adapter never fails).                         *)
(***************************************************************************)
IsOk(c) == c.err.tag = "Ok"

CallEntry(c, fn, key, asset, reference, read, write, cfg, ok) ==
    [tx |-> c.idx, fn |-> fn, key |-> key, asset |-> asset, reference |-> reference,
     read |-> read, write |-> write, cfg |-> cfg, ok |-> ok]

AdapterFails(c) == Len(c.calls) + 1 = c.fail_at

\* map_err(VerificationError::State)?
StateError(c, fn, key, asset) ==
    [c EXCEPT !.calls = Append(@, CallEntry(c, fn, key, asset, "", 0, 0, NoMultiSig, FALSE)),
              !.err = Err("State")]

\* state.pre_verify_tx(&self)
pre_verify_tx(c, tx) ==
    IF ~IsOk(c) THEN c
    ELSE IF AdapterFails(c) THEN StateError(c, "pre_verify_tx", tx.source, "")
    ELSE [c EXCEPT !.calls = Append(@,
            CallEntry(c, "pre_verify_tx", tx.source, "", "", 0, 0, NoMultiSig, TRUE))]

\* state.get_account_nonce(source): the value read is account_nonce below
get_account_nonce(c, key) ==
    IF ~IsOk(c) THEN c
    ELSE IF AdapterFails(c) THEN StateError(c, "get_account_nonce", key, "")
    ELSE [c EXCEPT !.calls = Append(@,
            CallEntry(c, "get_account_nonce", key, "", "",
                      c.state.nonces[key], c.state.nonces[key], NoMultiSig, TRUE))]

\* state.update_account_nonce(source, new_nonce)
update_account_nonce(c, key, new_nonce) ==
    IF ~IsOk(c) THEN c
    ELSE IF AdapterFails(c) THEN StateError(c, "update_account_nonce", key, "")
    ELSE [c EXCEPT !.calls = Append(@,
            CallEntry(c, "update_account_nonce", key, "", "",
                      c.state.nonces[key], new_nonce, NoMultiSig, TRUE)),
                   !.state.nonces[key] = new_nonce]

\* state.get_sender_balance(source, asset, reference) followed by the write
\* the caller makes through the returned &mut Ciphertext
get_sender_balance(c, key, asset, reference, new_balance) ==
    IF ~IsOk(c) THEN c
    ELSE IF AdapterFails(c) THEN StateError(c, "get_sender_balance", key, asset)
    ELSE [c EXCEPT !.calls = Append(@,
            CallEntry(c, "get_sender_balance", key, asset, reference,
                      c.state.sender_balances[key][asset][reference], new_balance,
                      NoMultiSig, TRUE)),
                   !.state.sender_balances[key][asset][reference] = new_balance]

\* state.get_receiver_balance(dest, asset) followed by the write the caller
\* makes through the returned &mut Ciphertext
get_receiver_balance(c, key, asset, new_balance) ==
    IF ~IsOk(c) THEN c
    ELSE IF AdapterFails(c) THEN StateError(c, "get_receiver_balance", key, asset)
    ELSE [c EXCEPT !.calls = Append(@,
            CallEntry(c, "get_receiver_balance", key, asset, "",
                      c.state.receiver_balances[key][asset], new_balance,
                      NoMultiSig, TRUE)),
                   !.state.receiver_balances[key][asset] = new_balance]

\* state.add_sender_output(source, asset, output)
add_sender_output(c, key, asset, output) ==
    IF ~IsOk(c) THEN c
    ELSE IF AdapterFails(c) THEN StateError(c, "add_sender_output", key, asset)
    ELSE [c EXCEPT !.calls = Append(@,
            CallEntry(c, "add_sender_output", key, asset, "",
                      output, c.state.sender_outputs[key][asset] + output,
                      NoMultiSig, TRUE)),
                   !.state.sender_outputs[key][asset] = @ + output]

\* state.get_multisig_state(source): the Option read is c.state.multisig[key]
get_multisig_state(c, key) ==
    IF ~IsOk(c) THEN c
    ELSE IF AdapterFails(c) THEN StateError(c, "get_multisig_state", key, "")
    ELSE [c EXCEPT !.calls = Append(@,
            CallEntry(c, "get_multisig_state", key, "", "", 0, 0,
                      c.state.multisig[key], TRUE))]

\* state.set_multisig_state(source, payload): a payload with threshold 0 and
\* no participant deletes the configuration
set_multisig_state(c, key, payload) ==
    LET stored == IF payload.threshold = 0 /\ payload.participants = <<>>
                  THEN NoMultiSig
                  ELSE SomeMultiSig(payload.threshold, payload.participants)
    IN  IF ~IsOk(c) THEN c
        ELSE IF AdapterFails(c) THEN StateError(c, "set_multisig_state", key, "")
        ELSE [c EXCEPT !.calls = Append(@,
                CallEntry(c, "set_multisig_state", key, "", "", 0, 0, stored, TRUE)),
                       !.state.multisig[key] = stored]

(***************************************************************************)
(* versioned_type.rs: VersionedState                                       *)
(***************************************************************************)

New == [kind |-> "New", topoheight |-> 0]
FetchedAt(topoheight) == [kind |-> "FetchedAt", topoheight |-> topoheight]
Updated(topoheight) == [kind |-> "Updated", topoheight |-> topoheight]

NoTopoheight == [some |-> FALSE, topoheight |-> 0]
SomeTopoheight(topoheight) == [some |-> TRUE, topoheight |-> topoheight]

is_new(self) == self.kind = "New"
is_fetched_at(self) == self.kind = "FetchedAt"
is_updated(self) == self.kind = "Updated"
should_be_stored(self) == ~is_fetched_at(self)

get_topoheight(self) ==
    IF self.kind \in {"FetchedAt", "Updated"}
    THEN SomeTopoheight(self.topoheight)
    ELSE NoTopoheight

\* A mark_updated that also marks a new version
mark_updated_from_new(self) ==
    CASE self.kind = "FetchedAt" -> Updated(self.topoheight)
      [] self.kind = "Updated" -> self
      [] OTHER -> Updated(0)

mark_updated(self) ==
    CASE self.kind = "FetchedAt" -> Updated(self.topoheight)
      [] self.kind = "Updated" -> self
      [] OTHER -> self

(***************************************************************************)
(* versioned_type.rs: Versioned<T> and its Serializer                      *)
(***************************************************************************)

U64_SIZE == 8

\* Writer::write_u64 / u64::write: the U64_SIZE bytes of v, big-endian
RECURSIVE be_bytes(_, _)
be_bytes(v, n) == IF n = 0 THEN <<>> ELSE Append(be_bytes(v \div 256, n - 1), v % 256)

RECURSIVE from_be_bytes(_)
from_be_bytes(bytes) ==
    IF bytes = <<>> THEN 0
    ELSE from_be_bytes(SubSeq(bytes, 1, Len(bytes) - 1)) * 256 + bytes[Len(bytes)]

u64_write(v) == be_bytes(v, U64_SIZE)

\* A Reader is the bytes it has left; a read gives the value and the Reader
\* after it, or a ReaderError
ReadOk(value, reader) == [ok |-> TRUE, value |-> value, reader |-> reader]
ReaderError == [ok |-> FALSE, value |-> 0, reader |-> <<>>]

u64_read(reader) ==
    IF Len(reader) < U64_SIZE THEN ReaderError
    ELSE ReadOk(from_be_bytes(SubSeq(reader, 1, U64_SIZE)),
                SubSeq(reader, U64_SIZE + 1, Len(reader)))

\* Versioned::new(data, previous_topoheight) with data: T; T is u64 or is
\* itself a Versioned<u64>
Versioned(type, data, previous_topoheight) ==
    [type |-> type, data |-> data, previous_topoheight |-> previous_topoheight]

\* A write that puts a topoheight on the wire for None too
RECURSIVE write_fixed_width(_)
write_fixed_width(self) ==
    (IF self.type = "u64" THEN u64_write(self.data) ELSE write_fixed_width(self.data))
    \o u64_write(self.previous_topoheight.topoheight)

\* versioned_type.rs 89-94: Versioned::write
RECURSIVE versioned_write(_)
versioned_write(self) ==
    (IF self.type = "u64" THEN u64_write(self.data) ELSE versioned_write(self.data))
    \o (IF self.previous_topoheight.some
        THEN u64_write(self.previous_topoheight.topoheight)
        ELSE <<>>)

\* versioned_type.rs 98-102, after T::read returned data
read_previous_topoheight(type, data) ==
    IF ~data.ok THEN ReaderError
    ELSE IF Len(data.reader) = 0
    THEN ReadOk(Versioned(type, data.value, NoTopoheight), data.reader)
    ELSE IF ~u64_read(data.reader).ok THEN ReaderError
    ELSE ReadOk(Versioned(type, data.value,
                          SomeTopoheight(u64_read(data.reader).value)),
                u64_read(data.reader).reader)

\* versioned_type.rs 96-108: Versioned::read
RECURSIVE versioned_read(_, _)
versioned_read(type, reader) ==
    read_previous_topoheight(type,
        IF type = "u64" THEN u64_read(reader) ELSE versioned_read("u64", reader))

\* versioned_type.rs 110-112: Versioned::size
RECURSIVE versioned_size(_)
versioned_size(self) ==
    (IF self.type = "u64" THEN U64_SIZE ELSE versioned_size(self.data))
    + (IF self.previous_topoheight.some THEN U64_SIZE ELSE 0)

(***************************************************************************)
(* contract/mod.rs: ChainState                                             *)
(***************************************************************************)

\* A Context that holds no ChainState
NoChainState ==
    [some |-> FALSE, debug_mode |-> FALSE, contract |-> "", deposits |-> <<>>,
     transfers |-> <<>>, storage |-> <<>>]

\* contract/mod.rs 44-70; transfers and storage start empty
ChainState(debug_mode, contract, deposits) ==
    [some |-> TRUE, debug_mode |-> debug_mode, contract |-> contract,
     deposits |-> deposits, transfers |-> <<>>, storage |-> <<>>]

\* Values of the VM
U64Value(n) == [type |-> "u64", value |-> n]
BoolValue(b) == [type |-> "bool", value |-> b]
StringValue(str) == [type |-> "string", value |-> str]
\* Value::Opaque of a Hash, of an Address
HashValue(hash) == [type |-> "Hash", value |-> hash]
AddressValue(key) == [type |-> "Address", value |-> key]
\* ValueCell::Optional
OptionalValue(opt) == [type |-> "optional", value |-> opt]

\* FnReturnType: Ok(None), Ok(Some(value)), Err(error)
RetNone == [ok |-> TRUE, some |-> FALSE, value |-> <<>>, error |-> ""]
RetSome(value) == [ok |-> TRUE, some |-> TRUE, value |-> <<value>>, error |-> ""]
RetErr(error) == [ok |-> FALSE, some |-> FALSE, value |-> <<>>, error |-> error]

\* What a native function leaves: the Context, its return, the lines it logged
Done(ctx, ret, log) == [context |-> ctx, ret |-> ret, log |-> log]

\* ContractDeposit::Public(amount), an entry of the deposits IndexMap
PublicDeposit(asset, amount) == [asset |-> asset, kind |-> "Public", amount |-> amount]

\* IndexMap::get
deposits_get(deposits, asset) ==
    SelectSeq(deposits, LAMBDA entry : entry.asset = asset)

\* TransferOutput, contract/mod.rs 35-42
TransferOutput(destination, amount, asset) ==
    [destination |-> destination, amount |-> amount, asset |-> asset]

\* contract/mod.rs 378-385
println_fn(params, ctx) ==
    IF ~ctx.some THEN Done(ctx, RetErr("chain state not found"), <<>>)
    ELSE Done(ctx, RetNone, IF ctx.debug_mode THEN <<params[1]>> ELSE <<>>)

\* contract/mod.rs 387-394
debug_fn(params, ctx) ==
    IF ~ctx.some THEN Done(ctx, RetErr("chain state not found"), <<>>)
    ELSE Done(ctx, RetNone, IF ctx.debug_mode THEN <<params[1]>> ELSE <<>>)

\* contract/mod.rs 396-399
get_contract_hash(params, ctx) ==
    IF ~ctx.some THEN Done(ctx, RetErr("chain state not found"), <<>>)
    ELSE Done(ctx, RetSome(HashValue(ctx.contract)), <<>>)

\* A lookup that answers with the first deposit, whatever the asset
get_deposit_for_asset_first(params, ctx) ==
    IF params[1].type # "Hash" THEN Done(ctx, RetErr("invalid asset"), <<>>)
    ELSE IF ~ctx.some THEN Done(ctx, RetErr("chain state not found"), <<>>)
    ELSE IF ctx.deposits = <<>>
    THEN Done(ctx, RetSome(OptionalValue(<<>>)), <<>>)
    ELSE Done(ctx, RetSome(OptionalValue(<<U64Value(ctx.deposits[1].amount)>>)), <<>>)

\* contract/mod.rs 401-420
get_deposit_for_asset(params, ctx) ==
    IF params[1].type # "Hash" THEN Done(ctx, RetErr("invalid asset"), <<>>)
    ELSE IF ~ctx.some THEN Done(ctx, RetErr("chain state not found"), <<>>)
    ELSE IF deposits_get(ctx.deposits, params[1].value) = <<>>
    THEN Done(ctx, RetSome(OptionalValue(<<>>)), <<>>)
    ELSE Done(ctx,
              RetSome(OptionalValue(
                  <<U64Value(deposits_get(ctx.deposits, params[1].value)[1].amount)>>)),
              <<>>)

\* contract/mod.rs 422-424
get_balance_for_asset(params, ctx) == Done(ctx, RetNone, <<>>)

\* A transfer that reads its parameters as registered and stamps the amount
\* with a clock of the host: the number of native calls made so far
transfer_stamped(params, ctx) ==
    IF ~ctx.some THEN Done(ctx, RetErr("chain state not found"), <<>>)
    ELSE Done([ctx EXCEPT !.transfers = Append(@,
                  TransferOutput(params[1].value, params[2].value + Len(trace),
                                 params[3].value))],
              RetSome(BoolValue(TRUE)), <<>>)

\* contract/mod.rs 426-449: params.remove(2) is the amount, params.remove(1)
\* the asset, params.remove(0) the destination
contract_transfer(params, ctx) ==
    IF ~ctx.some THEN Done(ctx, RetErr("chain state not found"), <<>>)
    ELSE IF params[3].type # "u64" THEN Done(ctx, RetErr("expected a u64"), <<>>)
    ELSE IF params[2].type # "Hash" THEN Done(ctx, RetErr("invalid opaque type"), <<>>)
    ELSE IF params[1].type # "Address"
    THEN Done(ctx, RetErr("invalid opaque type"), <<>>)
    ELSE Done([ctx EXCEPT !.transfers = Append(@,
                  TransferOutput(params[1].value, params[3].value, params[2].value))],
              RetSome(BoolValue(TRUE)), <<>>)

\* Option<Constant>: an entry of the storage overlay, an answer of the
\* ContractStorage
NoConstant == [some |-> FALSE, value |-> <<>>]
SomeConstant(value) == [some |-> TRUE, value |-> <<value>>]

\* HashMap::insert on the overlay
overlay_insert(storage, key, entry) ==
    [k \in DOMAIN storage \cup {key} |-> IF k = key THEN entry ELSE storage[k]]

\* A load that asks the ContractStorage first and the overlay only when the
\* ContractStorage holds nothing
storage_load_backing_first(params, ctx, store) ==
    IF ~ctx.some THEN Done(ctx, RetErr("chain state not found"), <<>>)
    ELSE IF store[params[1].value].some
    THEN Done(ctx, RetSome(OptionalValue(store[params[1].value].value)), <<>>)
    ELSE IF params[1].value \in DOMAIN ctx.storage
    THEN Done(ctx, RetSome(OptionalValue(ctx.storage[params[1].value].value)), <<>>)
    ELSE Done(ctx, RetSome(OptionalValue(<<>>)), <<>>)

\* storage.load(key): the overlay's entry when it has one (a tombstone is
\* None), else the ContractStorage's answer
storage_load(params, ctx, store) ==
    IF ~ctx.some THEN Done(ctx, RetErr("chain state not found"), <<>>)
    ELSE IF params[1].value \in DOMAIN ctx.storage
    THEN Done(ctx, RetSome(OptionalValue(ctx.storage[params[1].value].value)), <<>>)
    ELSE Done(ctx, RetSome(OptionalValue(store[params[1].value].value)), <<>>)

\* storage.has(key)
storage_has(params, ctx, store) ==
    IF ~ctx.some THEN Done(ctx, RetErr("chain state not found"), <<>>)
    ELSE IF params[1].value \in DOMAIN ctx.storage
    THEN Done(ctx, RetSome(BoolValue(ctx.storage[params[1].value].some)), <<>>)
    ELSE Done(ctx, RetSome(BoolValue(store[params[1].value].some)), <<>>)

\* storage.store(key, value)
storage_store(params, ctx) ==
    IF ~ctx.some THEN Done(ctx, RetErr("chain state not found"), <<>>)
    ELSE Done([ctx EXCEPT !.storage =
                  overlay_insert(@, params[1].value, SomeConstant(params[2]))],
              RetNone, <<>>)

\* storage.delete(key): a tombstone
storage_delete(params, ctx) ==
    IF ~ctx.some THEN Done(ctx, RetErr("chain state not found"), <<>>)
    ELSE Done([ctx EXCEPT !.storage = overlay_insert(@, params[1].value, NoConstant)],
              RetNone, <<>>)

(***************************************************************************)
(* Contexts                                                                *)
(***************************************************************************)
Fail(c, e) == [c EXCEPT !.err = e]
AppendTranscript(c, label, value) ==
    IF ~IsOk(c) THEN c
    ELSE [c EXCEPT !.transcript = Append(@, [label |-> label, value |-> value])]

\* A fresh context of one operation on adapter state s
NewContext(s, fail_at) ==
    [state |-> s, calls |-> <<>>, sigma |-> <<>>, transcript |-> <<>>,
     commitments |-> <<>>, prepared |-> <<>>, changes |-> <<>>,
     events |-> <<>>, err |-> Ok,
     fail_at |-> fail_at, idx |-> 1]

\* The verifier's own steps (a pre_verify ending, a proof check) are logged
\* with the number of adapter calls issued before them.
Event(c, ev, ok) ==
    [c EXCEPT !.events = Append(@,
        [ev |-> ev, tx |-> c.idx, at |-> Len(c.calls), ok |-> ok])]

(***************************************************************************)
(* Transaction (spec 3). A transfer's amount is the plaintext its          *)
(* commitment hides; ct_valid says whether its three points decompress.    *)
(* extra_data is the size of the extra data, -1 for None.                  *)
(* A proof is "valid", "reject" (its pre_verify returns an error) or       *)
(* "unsound" (collected, and the batched sigma check fails).               *)
(***************************************************************************)
IsTransfers(tx) == tx.data.type = "Transfers"
IsBurn(tx) == tx.data.type = "Burn"
IsMultiSig(tx) == tx.data.type = "MultiSig"

\* Transaction::get_multisig
get_multisig(tx) == tx.multisig

\* to_bytes().len(): the serialized size (spec 6): version, source, nonce,
\* fee, the data tag, the count of source commitments, the optional multisig
\* section and the signature; the variable-length bodies add to it
to_bytes_len(tx) ==
    1 + 32 + 8 + 8 + 1 + 1
    + 1 + (IF tx.multisig.some
           THEN 1 + Len(tx.multisig.sigs) * (SIGNATURE_SIZE + 1) ELSE 0)
    + SIGNATURE_SIZE

(***************************************************************************)
(* as_valid_version_format (mod.rs 113-128)                                *)
(***************************************************************************)
\* as_valid_version_format looking at the payload only, not at the multisig
\* signature section
as_valid_version_format_payload_only(tx) ==
    IF tx.version = "V0" THEN ~IsMultiSig(tx) ELSE TRUE

as_valid_version_format(tx) ==
    IF tx.version = "V0"
    THEN IF get_multisig(tx).some THEN FALSE
         ELSE ~IsMultiSig(tx)
    ELSE TRUE

(***************************************************************************)
(* get_sender_output_ct (mod.rs 132-161)                                   *)
(***************************************************************************)
\* SumTransfers adding every transfer, whatever its asset
RECURSIVE SumTransfers_any_asset(_, _, _)
SumTransfers_any_asset(transfers, asset, i) ==
    IF i > Len(transfers) THEN 0
    ELSE transfers[i].amount + SumTransfers_any_asset(transfers, asset, i + 1)

RECURSIVE SumTransfers(_, _, _)
SumTransfers(transfers, asset, i) ==
    IF i > Len(transfers) THEN 0
    ELSE (IF asset = transfers[i].asset THEN transfers[i].amount ELSE 0)
         + SumTransfers(transfers, asset, i + 1)

\* get_sender_output_ct leaving the fee out
get_sender_output_ct_no_fee(tx, asset) ==
    CASE IsTransfers(tx) -> SumTransfers(tx.data.transfers, asset, 1)
      [] IsBurn(tx) -> IF asset = tx.data.asset THEN tx.data.amount ELSE 0
      [] OTHER -> 0

get_sender_output_ct(tx, asset) ==
    (IF asset = XELIS_ASSET THEN tx.fee ELSE 0)
    + (CASE IsTransfers(tx) -> SumTransfers(tx.data.transfers, asset, 1)
         [] IsBurn(tx) -> IF asset = tx.data.asset THEN tx.data.amount ELSE 0
         [] OTHER -> 0)

\* The transcript opened with the nonce appended before the fee
prepare_transcript_nonce_first(c, tx) ==
    AppendTranscript(
        AppendTranscript(
            AppendTranscript(
                AppendTranscript(
                    IF IsOk(c) THEN [c EXCEPT !.transcript = <<>>] ELSE c,
                    "version", tx.version),
                "source_pubkey", tx.source),
            "nonce", ToString(tx.nonce)),
        "fee", ToString(tx.fee))

(***************************************************************************)
(* prepare_transcript (mod.rs 163-175)                                     *)
(***************************************************************************)
prepare_transcript(c, tx) ==
    AppendTranscript(
        AppendTranscript(
            AppendTranscript(
                AppendTranscript(
                    IF IsOk(c) THEN [c EXCEPT !.transcript = <<>>] ELSE c,
                    "version", tx.version),
                "source_pubkey", tx.source),
            "fee", ToString(tx.fee)),
        "nonce", ToString(tx.nonce))

(***************************************************************************)
(* verify_commitment_assets (mod.rs 178-213)                               *)
(***************************************************************************)
has_commitment_for_asset(tx, asset) ==
    \E i \in 1..Len(tx.source_commitments) : tx.source_commitments[i].asset = asset

\* verify_commitment_assets without the check for duplicates
verify_commitment_assets_no_duplicate_check(tx) ==
    IF ~has_commitment_for_asset(tx, XELIS_ASSET) THEN FALSE
    ELSE CASE IsTransfers(tx) ->
                \A i \in 1..Len(tx.data.transfers) :
                    has_commitment_for_asset(tx, tx.data.transfers[i].asset)
           [] IsBurn(tx) -> has_commitment_for_asset(tx, tx.data.asset)
           [] OTHER -> TRUE

verify_commitment_assets(tx) ==
    IF ~has_commitment_for_asset(tx, XELIS_ASSET) THEN FALSE
    ELSE IF \E i \in 1..Len(tx.source_commitments) :
              \E i2 \in 1..Len(tx.source_commitments) :
                 i # i2 /\ tx.source_commitments[i].asset = tx.source_commitments[i2].asset
         THEN FALSE
    ELSE CASE IsTransfers(tx) ->
                \A i \in 1..Len(tx.data.transfers) :
                    has_commitment_for_asset(tx, tx.data.transfers[i].asset)
           [] IsBurn(tx) -> has_commitment_for_asset(tx, tx.data.asset)
           [] OTHER -> TRUE

(***************************************************************************)
(* pre_verify (mod.rs 217-523), stage by stage. Every stage takes the      *)
(* context the stages before it left and returns at the first error.       *)
(***************************************************************************)
\* mod.rs 224-226: the version-format gate, on a fresh transcript and an empty
\* list of value commitments
check_format(c, tx) ==
    IF ~as_valid_version_format(tx)
    THEN Fail([c EXCEPT !.transcript = <<>>, !.commitments = <<>>], Err("InvalidFormat"))
    ELSE [c EXCEPT !.transcript = <<>>, !.commitments = <<>>]

\* check_nonce writing the next nonce before comparing the stored one
check_nonce_bump_first(c, tx) ==
    LET c1 == get_account_nonce(c, tx.source)
        account_nonce == c.state.nonces[tx.source]
        c2 == update_account_nonce(c1, tx.source, tx.nonce + 1)
    IN  IF ~IsOk(c2) THEN c2
        ELSE IF account_nonce # tx.nonce
             THEN Fail(c2, InvalidNonce(account_nonce, tx.nonce))
        ELSE c2

\* check_nonce without the nonce bump
check_nonce_no_bump(c, tx) ==
    LET c1 == get_account_nonce(c, tx.source)
        account_nonce == c.state.nonces[tx.source]
    IN  IF ~IsOk(c1) THEN c1
        ELSE IF account_nonce # tx.nonce
             THEN Fail(c1, InvalidNonce(account_nonce, tx.nonce))
        ELSE c1

\* check_nonce reporting the two nonces in the other order
check_nonce_swapped(c, tx) ==
    LET c1 == get_account_nonce(c, tx.source)
        account_nonce == c.state.nonces[tx.source]
    IN  IF ~IsOk(c1) THEN c1
        ELSE IF account_nonce # tx.nonce
             THEN Fail(c1, InvalidNonce(tx.nonce, account_nonce))
        ELSE update_account_nonce(c1, tx.source, tx.nonce + 1)

\* mod.rs 232-243: the nonce check and the nonce bump
check_nonce(c, tx) ==
    LET c1 == get_account_nonce(c, tx.source)
        account_nonce == c.state.nonces[tx.source]
    IN  IF ~IsOk(c1) THEN c1
        ELSE IF account_nonce # tx.nonce
             THEN Fail(c1, InvalidNonce(account_nonce, tx.nonce))
        ELSE update_account_nonce(c1, tx.source, tx.nonce + 1)

\* check_transfers rejecting an extra data of exactly EXTRA_DATA_LIMIT_SIZE
RECURSIVE check_transfers_below_limit(_, _, _)
check_transfers_below_limit(tx, i, extra_data_size) ==
    IF i > Len(tx.data.transfers)
    THEN IF extra_data_size > EXTRA_DATA_LIMIT_SUM_SIZE
         THEN Err("TransactionExtraDataSize") ELSE Ok
    ELSE LET transfer == tx.data.transfers[i]
         IN  IF transfer.destination = tx.source THEN Err("SenderIsReceiver")
             ELSE IF transfer.extra_data >= 0 /\ transfer.extra_data >= EXTRA_DATA_LIMIT_SIZE
                  THEN Err("TransferExtraDataSize")
             ELSE check_transfers_below_limit(tx, i + 1,
                     extra_data_size
                     + (IF transfer.extra_data >= 0 THEN transfer.extra_data ELSE 0))

\* mod.rs 258-278: the loop over the transfers, then the sum check
RECURSIVE check_transfers(_, _, _)
check_transfers(tx, i, extra_data_size) ==
    IF i > Len(tx.data.transfers)
    THEN IF extra_data_size > EXTRA_DATA_LIMIT_SUM_SIZE
         THEN Err("TransactionExtraDataSize") ELSE Ok
    ELSE LET transfer == tx.data.transfers[i]
         IN  IF transfer.destination = tx.source THEN Err("SenderIsReceiver")
             ELSE IF transfer.extra_data >= 0 /\ transfer.extra_data > EXTRA_DATA_LIMIT_SIZE
                  THEN Err("TransferExtraDataSize")
             ELSE check_transfers(tx, i + 1,
                     extra_data_size
                     + (IF transfer.extra_data >= 0 THEN transfer.extra_data ELSE 0))

\* u64::checked_add: -1 stands for None
U64_MAX == 15
\* u64::saturating_add in the place of checked_add
saturating_add(a, b) == IF a > U64_MAX - b THEN U64_MAX ELSE a + b
checked_add(a, b) == IF a > U64_MAX - b THEN -1 ELSE a + b

\* mod.rs 245-298: the commitments cover the payload, then the payload checks
\* made before any balance is touched
check_payload(c, tx) ==
    IF ~IsOk(c) THEN c
    ELSE IF ~verify_commitment_assets(tx) THEN Fail(c, Err("Commitments"))
    ELSE CASE IsTransfers(tx) ->
           LET transfers == tx.data.transfers
           IN  IF Len(transfers) > MAX_TRANSFER_COUNT \/ Len(transfers) = 0
               THEN Fail(c, Err("TransferCount"))
               ELSE LET e == check_transfers(tx, 1, 0)
                    IN  IF e.tag # "Ok" THEN Fail(c, e)
                        ELSE IF \E i \in 1..Len(transfers) : ~transfers[i].ct_valid
                             THEN Fail(c, Proof("Decompression"))
                        ELSE c
      [] IsBurn(tx) ->
           LET fee == tx.fee
               amount == tx.data.amount
               total == checked_add(fee, amount)
           IN  IF total = -1 THEN Fail(c, Err("InvalidFormat"))
               ELSE IF total < fee \/ total < amount THEN Fail(c, Err("InvalidFormat"))
               ELSE c
      [] OTHER -> c

\* mod.rs 300-310: decompress the source commitments and the source key
decompress_sources(c, tx) ==
    IF ~IsOk(c) THEN c
    ELSE IF \E i \in 1..Len(tx.source_commitments) : ~tx.source_commitments[i].point_valid
    THEN Fail(c, Proof("Decompression"))
    ELSE IF tx.source = INVALID_POINT THEN Fail(c, Proof("Decompression"))
    ELSE c

\* The signature check putting the nonce back when it rejects
verify_signature_nonce_restored(c, tx) ==
    IF ~IsOk(c) THEN c
    ELSE IF tx.signature # tx.source
    THEN Fail([c EXCEPT !.state.nonces[tx.source] = tx.nonce], Err("InvalidSignature"))
    ELSE c

\* mod.rs 314-319: signature.verify(bytes[..len - SIGNATURE_SIZE], owner)
verify_signature(c, tx) ==
    IF ~IsOk(c) THEN c
    ELSE IF tx.signature # tx.source THEN Fail(c, Err("InvalidSignature"))
    ELSE c

\* mod.rs 342-352: the loop over the multisig signatures
RECURSIVE verify_multisig_signatures(_, _, _, _)
verify_multisig_signatures(c, sigs, config, i) ==
    IF i > Len(sigs) THEN c
    ELSE LET index == sigs[i].id
         IN  IF index >= Len(config.participants)
             THEN Fail(c, Err("MultiSigParticipants"))
             ELSE LET key == config.participants[index + 1]
                  IN  IF key = INVALID_POINT THEN Fail(c, Proof("Decompression"))
                      ELSE IF sigs[i].signature # key
                           THEN Fail(c, Err("InvalidSignature"))
                      ELSE verify_multisig_signatures(c, sigs, config, i + 1)

\* The enforcement with "at least threshold signatures" in the place of
\* "exactly threshold signatures"
verify_multisig_at_least_threshold(c, tx) ==
    LET c1 == get_multisig_state(c, tx.source)
        config == c.state.multisig[tx.source]
        multisig == get_multisig(tx)
    IN  IF ~IsOk(c1) THEN c1
        ELSE IF config.some
        THEN IF ~multisig.some THEN Fail(c1, Err("MultiSigNotFound"))
             ELSE IF config.threshold > Len(multisig.sigs)
                     \/ Len(multisig.sigs) > MAX_MULTISIG_PARTICIPANTS
                  THEN Fail(c1, Err("MultiSigParticipants"))
             ELSE verify_multisig_signatures(c1, multisig.sigs, config, 1)
        ELSE IF multisig.some THEN Fail(c1, Err("MultiSigNotConfigured"))
        ELSE c1

\* The enforcement with a MultiSig transaction checked against the
\* configuration it carries instead of the one in force
verify_multisig_against_payload(c, tx) ==
    LET c1 == get_multisig_state(c, tx.source)
        config == IF IsMultiSig(tx) /\ tx.data.threshold > 0
                  THEN SomeMultiSig(tx.data.threshold, tx.data.participants)
                  ELSE c.state.multisig[tx.source]
        multisig == get_multisig(tx)
    IN  IF ~IsOk(c1) THEN c1
        ELSE IF config.some
        THEN IF ~multisig.some THEN Fail(c1, Err("MultiSigNotFound"))
             ELSE IF config.threshold # Len(multisig.sigs)
                     \/ Len(multisig.sigs) > MAX_MULTISIG_PARTICIPANTS
                  THEN Fail(c1, Err("MultiSigParticipants"))
             ELSE verify_multisig_signatures(c1, multisig.sigs, config, 1)
        ELSE IF multisig.some THEN Fail(c1, Err("MultiSigNotConfigured"))
        ELSE c1

\* mod.rs 321-355
verify_multisig(c, tx) ==
    LET c1 == get_multisig_state(c, tx.source)
        config == c.state.multisig[tx.source]
        multisig == get_multisig(tx)
    IN  IF ~IsOk(c1) THEN c1
        ELSE IF config.some
        THEN IF ~multisig.some THEN Fail(c1, Err("MultiSigNotFound"))
             ELSE IF config.threshold # Len(multisig.sigs)
                     \/ Len(multisig.sigs) > MAX_MULTISIG_PARTICIPANTS
                  THEN Fail(c1, Err("MultiSigParticipants"))
             ELSE LET size == 1 + 1 + SIGNATURE_SIZE
                              + Len(multisig.sigs) * (SIGNATURE_SIZE + 1)
                  IN  IF size >= to_bytes_len(tx) THEN Fail(c1, Err("InvalidFormat"))
                      ELSE verify_multisig_signatures(c1, multisig.sigs, config, 1)
        ELSE IF multisig.some THEN Fail(c1, Err("MultiSigNotConfigured"))
        ELSE c1

\* proof.pre_verify(.., transcript, sigma_batch_collector)?: an error, or the
\* proof joins the batch
proof_pre_verify(c, proof) ==
    IF ~IsOk(c) THEN c
    ELSE IF proof = "reject" THEN Fail(c, Proof("Format"))
    ELSE [c EXCEPT !.sigma = Append(@, proof = "valid")]

\* One turn of the loop with the sender output recorded before the balance
\* is fetched and debited
verify_commitment_output_first(c, tx, i) ==
    LET commitment == tx.source_commitments[i]
        output == get_sender_output_ct(tx, commitment.asset)
    IN  get_sender_balance(
            add_sender_output(
                proof_pre_verify(
                    AppendTranscript(
                        AppendTranscript(
                            AppendTranscript(c,
                                "new_commitment_eq_proof_domain_separator", ""),
                            "new_source_commitment_asset", commitment.asset),
                        "new_source_commitment", ToString(i)),
                    commitment.proof),
                tx.source, commitment.asset, output),
            tx.source, commitment.asset, tx.reference,
            c.state.sender_balances[tx.source][commitment.asset][tx.reference] - output)

\* mod.rs 360-396: one turn of the loop over the source commitments
verify_commitment(c, tx, i) ==
    LET commitment == tx.source_commitments[i]
        output == get_sender_output_ct(tx, commitment.asset)
        balance == c.state.sender_balances[tx.source][commitment.asset][tx.reference]
    IN  add_sender_output(
            proof_pre_verify(
                AppendTranscript(
                    AppendTranscript(
                        AppendTranscript(
                            get_sender_balance(c, tx.source, commitment.asset,
                                               tx.reference, balance - output),
                            "new_commitment_eq_proof_domain_separator", ""),
                        "new_source_commitment_asset", commitment.asset),
                    "new_source_commitment", ToString(i)),
                commitment.proof),
            tx.source, commitment.asset, output)

RECURSIVE verify_commitments(_, _, _)
verify_commitments(c, tx, i) ==
    IF i > Len(tx.source_commitments) \/ ~IsOk(c) THEN c
    ELSE verify_commitments(verify_commitment(c, tx, i), tx, i + 1)

\* mod.rs 448: value_commitments.push(..)
push_commitment(c, commitment) ==
    IF ~IsOk(c) THEN c ELSE [c EXCEPT !.commitments = Append(@, commitment)]

\* mod.rs 412-449: one turn of the loop over the transfers
verify_transfer(c, tx, i) ==
    LET transfer == tx.data.transfers[i]
    IN  IF transfer.destination = INVALID_POINT THEN Fail(c, Proof("Decompression"))
        ELSE push_commitment(
                 proof_pre_verify(
                     AppendTranscript(
                         AppendTranscript(
                             AppendTranscript(
                                 AppendTranscript(
                                     AppendTranscript(
                                         get_receiver_balance(c, transfer.destination,
                                             transfer.asset,
                                             c.state.receiver_balances
                                                 [transfer.destination][transfer.asset]
                                             + transfer.amount),
                                         "transfer_proof_domain_separator", ""),
                                     "dest_pubkey", transfer.destination),
                                 "amount_commitment", ToString(i)),
                             "amount_sender_handle", ToString(i)),
                         "amount_receiver_handle", ToString(i)),
                     transfer.ct_validity_proof),
                 [kind |-> "transfer", id |-> i])

RECURSIVE verify_transfers(_, _, _)
verify_transfers(c, tx, i) ==
    IF i > Len(tx.data.transfers) \/ ~IsOk(c) THEN c
    ELSE verify_transfers(verify_transfer(c, tx, i), tx, i + 1)

\* mod.rs 451-464
verify_burn(c, tx) ==
    IF ~IsOk(c) THEN c
    ELSE IF tx.data.amount = 0 THEN Fail(c, Err("InvalidFormat"))
    ELSE get_receiver_balance(c, tx.source, tx.data.asset,
             c.state.receiver_balances[tx.source][tx.data.asset] + tx.data.amount)

RECURSIVE append_participants(_, _, _)
append_participants(c, participants, i) ==
    IF i > Len(participants) THEN c
    ELSE append_participants(
             AppendTranscript(c, "multisig_participant", participants[i]),
             participants, i + 1)

\* The payload arm without the lookup a reset needs
verify_multisig_payload_no_reset_check(c, tx) ==
    IF ~IsOk(c) THEN c
    ELSE IF Len(tx.data.participants) > MAX_MULTISIG_PARTICIPANTS
    THEN Fail(c, Err("MultiSigParticipants"))
    ELSE IF tx.data.threshold > Len(tx.data.participants)
    THEN Fail(c, Err("MultiSigThreshold"))
    ELSE set_multisig_state(
             append_participants(
                 AppendTranscript(
                     AppendTranscript(c, "multisig_proof_domain_separator", ""),
                     "multisig_threshold", ToString(tx.data.threshold)),
                 tx.data.participants, 1),
             tx.source, tx.data)

\* mod.rs 465-489
verify_multisig_payload(c, tx) ==
    LET payload == tx.data
        is_reset == payload.threshold = 0 /\ Len(payload.participants) # 0
        c1 == IF is_reset THEN get_multisig_state(c, tx.source) ELSE c
    IN  IF ~IsOk(c) THEN c
        ELSE IF Len(payload.participants) > MAX_MULTISIG_PARTICIPANTS
        THEN Fail(c, Err("MultiSigParticipants"))
        ELSE IF payload.threshold > Len(payload.participants)
        THEN Fail(c, Err("MultiSigThreshold"))
        ELSE IF ~IsOk(c1) THEN c1
        ELSE IF is_reset /\ ~c.state.multisig[tx.source].some
        THEN Fail(c1, Err("MultiSigNotConfigured"))
        ELSE set_multisig_state(
                 append_participants(
                     AppendTranscript(
                         AppendTranscript(c1, "multisig_proof_domain_separator", ""),
                         "multisig_threshold", ToString(payload.threshold)),
                     payload.participants, 1),
                 tx.source, payload)

\* mod.rs 406-490: the match on the payload
verify_data(c, tx) ==
    CASE IsTransfers(tx) -> verify_transfers(c, tx, 1)
      [] IsBurn(tx) -> verify_burn(c, tx)
      [] OTHER -> verify_multisig_payload(c, tx)

\* usize::checked_next_power_of_two
RECURSIVE next_power_of_two_from(_, _)
next_power_of_two_from(n, p) == IF p >= n THEN p ELSE next_power_of_two_from(n, 2 * p)
next_power_of_two(n) == next_power_of_two_from(n, 1)

\* mod.rs 401-410, 492-515: the value commitments handed to the range proof
\* The final vector without the (identity, identity) pairs
final_commitments_unpadded(c, tx) ==
    IF ~IsOk(c) THEN c
    ELSE [c EXCEPT !.commitments =
            [i \in 1..Len(tx.source_commitments) |-> [kind |-> "source", id |-> i]]
            \o c.commitments]

final_commitments(c, tx) ==
    LET n_commitments == Len(tx.source_commitments)
                         + (IF IsTransfers(tx) THEN Len(tx.data.transfers) ELSE 0)
        n_dud_commitments == next_power_of_two(n_commitments) - n_commitments
    IN  IF ~IsOk(c) THEN c
        ELSE [c EXCEPT !.commitments =
                [i \in 1..Len(tx.source_commitments) |-> [kind |-> "source", id |-> i]]
                \o c.commitments
                \o [i \in 1..n_dud_commitments |-> [kind |-> "identity", id |-> 0]]]

\* The stages with the source commitments debited before the signature and
\* the multisig section are verified
pre_verify_stages_debits_first(c, tx) ==
    final_commitments(
        verify_data(
            verify_multisig(
                verify_signature(
                    verify_commitments(
                        prepare_transcript(
                            decompress_sources(
                                check_payload(
                                    check_nonce(
                                        pre_verify_tx(check_format(c, tx), tx),
                                        tx),
                                    tx),
                                tx),
                            tx),
                        tx, 1),
                    tx),
                tx),
            tx),
        tx)

\* mod.rs 217-523
pre_verify_stages(c, tx) ==
    final_commitments(
        verify_data(
            verify_commitments(
                verify_multisig(
                    verify_signature(
                        prepare_transcript(
                            decompress_sources(
                                check_payload(
                                    check_nonce(
                                        pre_verify_tx(check_format(c, tx), tx),
                                        tx),
                                    tx),
                                tx),
                            tx),
                        tx),
                    tx),
                tx, 1),
            tx),
        tx)

\* mod.rs 517-522: what pre_verify returns: an error, or the transcript and
\* the value commitments of the transaction
pre_verify_returns(r) ==
    IF IsOk(r)
    THEN [Event(r, "pre_verify", TRUE) EXCEPT !.prepared = Append(@,
            [transcript |-> r.transcript, commitments |-> r.commitments])]
    ELSE Event(r, "pre_verify", FALSE)

\* The Ok((transcript, final_commitments)) a caller receives is kept in prepared.
pre_verify(c, tx) == pre_verify_returns(pre_verify_stages(c, tx))

\* BatchCollector::verify, map_err(GenericProof)
\* A batch check whose verdict depends on the weights drawn: the generator has
\* advanced when an operation has run before, and the weights it gives then
\* let proofs through that do not hold
sigma_batch_verify_weighted(c) ==
    LET ok == (\A i \in 1..Len(c.sigma) : c.sigma[i]) \/ steps > 0
    IN  IF ~IsOk(c) THEN c
        ELSE IF ok THEN Event(c, "sigma_batch_verify", TRUE)
        ELSE Fail(Event(c, "sigma_batch_verify", FALSE), Proof("GenericProof"))

sigma_batch_verify(c) ==
    LET ok == \A i \in 1..Len(c.sigma) : c.sigma[i]
    IN  IF ~IsOk(c) THEN c
        ELSE IF ok THEN Event(c, "sigma_batch_verify", TRUE)
        ELSE Fail(Event(c, "sigma_batch_verify", FALSE), Proof("GenericProof"))

(***************************************************************************)
(* verify_batch (mod.rs 525-554)                                           *)
(***************************************************************************)
\* pre_verify_all giving every transaction the adapter state the batch began on
RECURSIVE pre_verify_all_isolated_from(_, _, _, _)
pre_verify_all_isolated_from(c, txs, i, s0) ==
    IF i > Len(txs) \/ ~IsOk(c) THEN c
    ELSE pre_verify_all_isolated_from(
             pre_verify([c EXCEPT !.idx = i, !.state = s0], txs[i]), txs, i + 1, s0)
pre_verify_all_isolated(c, txs, i) == pre_verify_all_isolated_from(c, txs, i, c.state)

\* pre_verify_all going on to the next transaction after a failure and
\* returning the first error at the end
RECURSIVE pre_verify_all_continue_with(_, _, _, _)
pre_verify_all_continue_with(c, txs, i, first) ==
    IF i > Len(txs) THEN Fail(c, first)
    ELSE LET r == pre_verify([c EXCEPT !.idx = i, !.err = Ok], txs[i])
         IN  pre_verify_all_continue_with(r, txs, i + 1,
                 IF first = Ok THEN r.err ELSE first)
pre_verify_all_continue(c, txs, i) == pre_verify_all_continue_with(c, txs, i, Ok)

RECURSIVE pre_verify_all(_, _, _)
pre_verify_all(c, txs, i) ==
    IF i > Len(txs) \/ ~IsOk(c) THEN c
    ELSE pre_verify_all(pre_verify([c EXCEPT !.idx = i], txs[i]), txs, i + 1)

\* range_proof_verify_batch run whatever the sigma check said
range_proof_verify_batch_anyway(c, txs) ==
    LET ok == \A i \in 1..Len(txs) : txs[i].range_proof = "valid"
    IN  IF ~IsOk(c) /\ c.err # Proof("GenericProof") THEN c
        ELSE IF ok THEN Event(c, "range_proof_verify", TRUE)
        ELSE Fail(Event(c, "range_proof_verify", FALSE),
                  IF IsOk(c) THEN Proof("RangeProof") ELSE c.err)

\* RangeProof::verify_batch over every transaction's view
range_proof_verify_batch(c, txs) ==
    LET ok == \A i \in 1..Len(txs) : txs[i].range_proof = "valid"
    IN  IF ~IsOk(c) THEN c
        ELSE IF ok THEN Event(c, "range_proof_verify", TRUE)
        ELSE Fail(Event(c, "range_proof_verify", FALSE), Proof("RangeProof"))

\* RangeProof::verify_multiple on one transaction
range_proof_verify_multiple(c, tx) ==
    LET ok == tx.range_proof = "valid"
    IN  IF ~IsOk(c) THEN c
        ELSE IF ok THEN Event(c, "range_proof_verify", TRUE)
        ELSE Fail(Event(c, "range_proof_verify", FALSE), Proof("RangeProof"))

verify_batch(txs, s, fail_at) ==
    range_proof_verify_batch(
        sigma_batch_verify(pre_verify_all(NewContext(s, fail_at), txs, 1)),
        txs)

(***************************************************************************)
(* verify (mod.rs 557-581)                                                 *)
(***************************************************************************)
verify(tx, s, fail_at) ==
    range_proof_verify_multiple(
        sigma_batch_verify(pre_verify(NewContext(s, fail_at), tx)),
        tx)

(***************************************************************************)
(* apply_without_verify (mod.rs 584-649)                                   *)
(***************************************************************************)
\* mod.rs 592-600, 658-666: DecompressedTransferCt::decompress on every transfer
decompress_transfers(c, tx) ==
    IF ~IsOk(c) THEN c
    ELSE IF IsTransfers(tx)
            /\ \E i \in 1..Len(tx.data.transfers) : ~tx.data.transfers[i].ct_valid
    THEN Fail(c, Proof("Decompression"))
    ELSE c

\* mod.rs 602-622: one turn of the loop over the source commitments
apply_commitment(c, tx, i) ==
    LET asset == tx.source_commitments[i].asset
        output == get_sender_output_ct(tx, asset)
    IN  add_sender_output(
            get_sender_balance(c, tx.source, asset, tx.reference,
                c.state.sender_balances[tx.source][asset][tx.reference] - output),
            tx.source, asset, output)

RECURSIVE apply_commitments(_, _, _)
apply_commitments(c, tx, i) ==
    IF i > Len(tx.source_commitments) \/ ~IsOk(c) THEN c
    ELSE apply_commitments(apply_commitment(c, tx, i), tx, i + 1)

\* mod.rs 626-640, 746-761: one turn of the loop crediting the receivers
apply_transfer(c, tx, i) ==
    LET transfer == tx.data.transfers[i]
        balance == c.state.receiver_balances[transfer.destination][transfer.asset]
    IN  IF transfer.ct_valid
        THEN get_receiver_balance(c, transfer.destination, transfer.asset,
                                  balance + transfer.amount)
        ELSE LET c1 == get_receiver_balance(c, transfer.destination, transfer.asset,
                                            balance)
             IN  IF ~IsOk(c1) THEN c1 ELSE Fail(c1, Proof("Decompression"))

RECURSIVE apply_transfers(_, _, _)
apply_transfers(c, tx, i) ==
    IF i > Len(tx.data.transfers) \/ ~IsOk(c) THEN c
    ELSE apply_transfers(apply_transfer(c, tx, i), tx, i + 1)

\* mod.rs 624-646, 744-767: the match on the payload
apply_data(c, tx) ==
    IF ~IsOk(c) THEN c
    ELSE CASE IsTransfers(tx) -> apply_transfers(c, tx, 1)
           [] IsBurn(tx) -> c
           [] OTHER -> set_multisig_state(c, tx.source, tx.data)

apply_without_verify(tx, s, fail_at) ==
    apply_data(
        apply_commitments(
            decompress_transfers(
                update_account_nonce(NewContext(s, fail_at), tx.source, tx.nonce + 1),
                tx),
            tx, 1),
        tx)

(***************************************************************************)
(* apply_with_partial_verify (mod.rs 654-770)                              *)
(***************************************************************************)
\* mod.rs 716: commitments_changes.push(..)
push_change(c, change) ==
    IF ~IsOk(c) THEN c ELSE [c EXCEPT !.changes = Append(@, change)]

\* mod.rs 687-717: one turn of the loop building commitments_changes; the
\* sender balance is cloned, the adapter's copy is not written
build_commitment_change(c, tx, i) ==
    LET commitment == tx.source_commitments[i]
        output == get_sender_output_ct(tx, commitment.asset)
        balance == c.state.sender_balances[tx.source][commitment.asset][tx.reference]
    IN  push_change(
            proof_pre_verify(
                AppendTranscript(
                    AppendTranscript(
                        AppendTranscript(
                            get_sender_balance(c, tx.source, commitment.asset,
                                               tx.reference, balance),
                            "new_commitment_eq_proof_domain_separator", ""),
                        "new_source_commitment_asset", commitment.asset),
                    "new_source_commitment", ToString(i)),
                commitment.proof),
            [balance |-> balance - output, output |-> output,
             asset |-> commitment.asset])

RECURSIVE build_commitments_changes(_, _, _)
build_commitments_changes(c, tx, i) ==
    IF i > Len(tx.source_commitments) \/ ~IsOk(c) THEN c
    ELSE build_commitments_changes(build_commitment_change(c, tx, i), tx, i + 1)

\* mod.rs 725-741: one turn of the loop writing commitments_changes
commit_change(c, tx, i) ==
    add_sender_output(
        get_sender_balance(c, tx.source, c.changes[i].asset, tx.reference,
                           c.changes[i].balance),
        tx.source, c.changes[i].asset, c.changes[i].output)

RECURSIVE commit_changes(_, _, _)
commit_changes(c, tx, i) ==
    IF i > Len(c.changes) \/ ~IsOk(c) THEN c
    ELSE commit_changes(commit_change(c, tx, i), tx, i + 1)

\* apply_with_partial_verify writing the next nonce as apply_without_verify does
apply_with_partial_verify_bumping(tx, s, fail_at) ==
    apply_data(
        commit_changes(
            sigma_batch_verify(
                build_commitments_changes(
                    prepare_transcript(
                        decompress_sources(
                            decompress_transfers(
                                update_account_nonce(NewContext(s, fail_at),
                                                     tx.source, tx.nonce + 1),
                                tx),
                            tx),
                        tx),
                    tx, 1)),
            tx, 1),
        tx)

apply_with_partial_verify(tx, s, fail_at) ==
    apply_data(
        commit_changes(
            sigma_batch_verify(
                build_commitments_changes(
                    prepare_transcript(
                        decompress_sources(
                            decompress_transfers(NewContext(s, fail_at), tx),
                            tx),
                        tx),
                    tx, 1)),
            tx, 1),
        tx)

(***************************************************************************)
(* Inputs                                                                  *)
(***************************************************************************)
Transfer(destination, asset, amount) ==
    [destination |-> destination, asset |-> asset, amount |-> amount,
     extra_data |-> -1, ct_valid |-> TRUE, ct_validity_proof |-> "valid"]

SourceCommitment(asset) == [asset |-> asset, point_valid |-> TRUE, proof |-> "valid"]

Transfers(transfers) ==
    [type |-> "Transfers", transfers |-> transfers, asset |-> "", amount |-> 0,
     threshold |-> 0, participants |-> <<>>]
Burn(asset, amount) ==
    [type |-> "Burn", transfers |-> <<>>, asset |-> asset, amount |-> amount,
     threshold |-> 0, participants |-> <<>>]
MultiSig(threshold, participants) ==
    [type |-> "MultiSig", transfers |-> <<>>, asset |-> "", amount |-> 0,
     threshold |-> threshold, participants |-> participants]

NoSignatures == [some |-> FALSE, sigs |-> <<>>]
Signatures(sigs) == [some |-> TRUE, sigs |-> sigs]
SigId(id, signer) == [id |-> id, signature |-> signer]

\* A well-formed V1 transaction signed by its source
Tx(source, nonce, fee, data, source_commitments) ==
    [version |-> "V1", source |-> source, nonce |-> nonce, fee |-> fee,
     reference |-> "ref_a", data |-> data, source_commitments |-> source_commitments,
     range_proof |-> "valid", multisig |-> NoSignatures, signature |-> source]

SeqsUpTo(S, n) == UNION {[1..k -> S] : k \in 0..n}

Other(source) == CHOOSE k \in Keys : k # source

\* The source commitments a transaction is given: the native asset alone, both
\* assets in either order
CommitmentLists ==
    {<<SourceCommitment(XELIS_ASSET)>>,
     <<SourceCommitment(XELIS_ASSET), SourceCommitment("TOKEN")>>,
     <<SourceCommitment("TOKEN"), SourceCommitment(XELIS_ASSET)>>}

\* Transfers from alice to bob, of every asset and amount
TransferTxs ==
    {Tx("alice", nonce, fee, Transfers(transfers), commitments) :
        nonce \in 0..MaxNonce, fee \in 0..MaxFee,
        transfers \in SeqsUpTo({Transfer("bob", a, v) :
                                   a \in Assets, v \in 1..MaxAmount}, MaxTransfers),
        commitments \in CommitmentLists}

BurnTxs ==
    {Tx("alice", nonce, fee, Burn(asset, amount), commitments) :
        nonce \in 0..MaxNonce, fee \in 0..MaxFee,
        asset \in Assets, amount \in 0..MaxAmount, commitments \in CommitmentLists}

\* IndexSet<CompressedPublicKey>: no key twice
ParticipantLists ==
    {p \in SeqsUpTo(Keys, MAX_MULTISIG_PARTICIPANTS) :
        \A i, j \in 1..Len(p) : i # j => p[i] # p[j]}

MultiSigTxs ==
    {Tx("alice", nonce, fee, MultiSig(threshold, participants),
        <<SourceCommitment(XELIS_ASSET)>>) :
        nonce \in 0..MaxNonce, fee \in 0..MaxFee,
        threshold \in 0..MAX_MULTISIG_PARTICIPANTS, participants \in ParticipantLists}

\* The transactions the faulty ones are made from: the transfer of the spec's
\* first scenario, a two-asset transfer, a burn and a multisig setup
BaseTxs ==
    {Tx("alice", 0, 1, Transfers(<<Transfer("bob", XELIS_ASSET, 1)>>),
        <<SourceCommitment(XELIS_ASSET)>>),
     Tx("alice", 0, 1, Transfers(<<Transfer("bob", XELIS_ASSET, 1),
                                   Transfer("bob", "TOKEN", 2)>>),
        <<SourceCommitment(XELIS_ASSET), SourceCommitment("TOKEN")>>),
     Tx("alice", 0, 1, Burn("TOKEN", 2),
        <<SourceCommitment(XELIS_ASSET), SourceCommitment("TOKEN")>>),
     Tx("alice", 0, 1, MultiSig(1, <<"bob">>), <<SourceCommitment(XELIS_ASSET)>>)}

\* Signature lists of a multisig section
SignatureLists ==
    SeqsUpTo({SigId(id, signer) : id \in 0..MAX_MULTISIG_PARTICIPANTS - 1,
                                  signer \in Keys \cup {FORGED}},
             MAX_MULTISIG_PARTICIPANTS)

\* One participant more than MAX_MULTISIG_PARTICIPANTS: the keys of the model
\* and compressed keys of no account
TooManyParticipants ==
    [i \in 1..MAX_MULTISIG_PARTICIPANTS + 1 |->
        CASE i = 1 -> "bob" [] i = 2 -> "alice" [] OTHER -> "carol_" \o ToString(i)]

\* One thing wrong (or unusual) with a base transaction
Faulty(tx) ==
    {[tx EXCEPT !.version = "V0"],
     [tx EXCEPT !.signature = FORGED],
     [tx EXCEPT !.signature = "bob"],
     [tx EXCEPT !.source = INVALID_POINT, !.signature = INVALID_POINT],
     [tx EXCEPT !.range_proof = "invalid"],
     [tx EXCEPT !.reference = "ref_b"],
     [tx EXCEPT !.source = "bob", !.signature = "bob",
                !.data.transfers = [i \in DOMAIN @ |-> [@[i] EXCEPT !.destination = "alice"]]],
     [tx EXCEPT !.source_commitments = <<>>],
     [tx EXCEPT !.source_commitments = <<SourceCommitment("TOKEN")>>],
     [tx EXCEPT !.source_commitments = @ \o <<SourceCommitment(XELIS_ASSET)>>]}
    \cup {[tx EXCEPT !.multisig = Signatures(sigs)] : sigs \in SignatureLists}
    \cup {[tx EXCEPT !.version = "V0", !.multisig = Signatures(<<>>)]}
    \cup {[tx EXCEPT !.source_commitments[i].point_valid = FALSE] :
            i \in DOMAIN tx.source_commitments}
    \cup {[tx EXCEPT !.source_commitments[i].proof = verdict] :
            i \in DOMAIN tx.source_commitments, verdict \in {"reject", "unsound"}}
    \cup {[tx EXCEPT !.data.transfers[i].ct_valid = FALSE] :
            i \in DOMAIN tx.data.transfers}
    \cup {[tx EXCEPT !.data.transfers[i].ct_validity_proof = verdict] :
            i \in DOMAIN tx.data.transfers, verdict \in {"reject", "unsound"}}
    \cup {[tx EXCEPT !.data.transfers[i].destination = key] :
            i \in DOMAIN tx.data.transfers, key \in {"alice", INVALID_POINT}}
    \cup {[tx EXCEPT !.data.transfers =
                [i \in DOMAIN @ |-> [@[i] EXCEPT !.extra_data = sizes[i]]]] :
            sizes \in [DOMAIN tx.data.transfers -> -1..EXTRA_DATA_LIMIT_SIZE + 1]}
    \cup {[tx EXCEPT !.data.transfers =
                [i \in DOMAIN @ |-> [@[i] EXCEPT !.extra_data = EXTRA_DATA_LIMIT_SIZE + 1,
                                                 !.destination = tx.source]]]}
    \cup (IF tx.data.type = "MultiSig"
          THEN {[tx EXCEPT !.data = MultiSig(threshold, participants),
                           !.multisig = multisig] :
                  threshold \in 0..MAX_MULTISIG_PARTICIPANTS + 2,
                  participants \in ParticipantLists \cup {TooManyParticipants},
                  multisig \in {NoSignatures, Signatures(<<SigId(0, "bob")>>)}}
          ELSE {})
    \cup (IF tx.data.type = "Burn"
          THEN {[tx EXCEPT !.data.amount = amount, !.data.asset = asset] :
                  amount \in {U64_MAX - tx.fee - 1, U64_MAX - tx.fee,
                              U64_MAX - tx.fee + 1, U64_MAX},
                  asset \in Assets}
          ELSE {})
    \cup (IF tx.data.type = "Transfers"
          THEN {[tx EXCEPT !.data.transfers =
                    [i \in 1..MAX_TRANSFER_COUNT + 1 |-> Transfer("bob", XELIS_ASSET, 1)]],
                [tx EXCEPT !.data.transfers = <<>>]}
          ELSE {})

FaultyTxs == UNION {Faulty(tx) : tx \in BaseTxs}

TxSet == TransferTxs \cup BurnTxs \cup MultiSigTxs \cup BaseTxs \cup FaultyTxs

\* The transactions batches are made of
BatchTxs ==
    BaseTxs
    \cup {[tx EXCEPT !.nonce = 1] : tx \in BaseTxs}
    \cup {[tx EXCEPT !.nonce = 1, !.multisig = Signatures(<<SigId(0, "bob")>>)] :
            tx \in {base \in BaseTxs : Len(base.source_commitments) = 1}}
    \cup {tx \in FaultyTxs :
            \/ tx.source = "bob"
            \/ tx.signature = FORGED
            \/ tx.range_proof = "invalid"
            \/ tx.version = "V0"
            \/ (/\ tx.multisig = Signatures(<<SigId(0, "bob")>>)
                /\ \E base \in BaseTxs : tx.data = base.data)
            \/ \E i \in DOMAIN tx.data.transfers :
                 tx.data.transfers[i].ct_validity_proof # "valid"}

\* The adapter fails during the operations on base transactions only
FailAts == 0..MaxFailAt
Inputs == (TxSet \X {0}) \cup (BaseTxs \X FailAts)
BatchInputs ==
    (SeqsUpTo(BatchTxs, MaxBatch) \X {0}) \cup (SeqsUpTo(BaseTxs, MaxBatch) \X FailAts)

(***************************************************************************)
(* The adapter states an operation is called on                            *)
(***************************************************************************)
MultiSigConfigs ==
    {NoMultiSig, SomeMultiSig(1, <<"bob">>), SomeMultiSig(2, <<"bob", "alice">>)}

AdapterState(nonce, config) ==
    [nonces |-> [k \in AllKeys |-> nonce],
     sender_balances |->
        [k \in AllKeys |-> [a \in Assets |-> [r \in References |-> InitBalance]]],
     receiver_balances |-> [k \in AllKeys |-> [a \in Assets |-> 0]],
     sender_outputs |-> [k \in AllKeys |-> [a \in Assets |-> 0]],
     multisig |-> [k \in AllKeys |-> IF k = "alice" THEN config ELSE NoMultiSig]]

\* Nothing has been done with the VersionedState, the Serializer, the contract
\* host or the verifier
VersionedIdle == versioned = New /\ marked = <<>>
WireIdle == written = <<>> /\ readback = <<>>
ContractIdle ==
    /\ context = NoChainState
    /\ entered = NoChainState
    /\ backing = <<>>
    /\ trace = <<>>
    /\ replay = <<>>
VerifierIdle ==
    /\ state = AdapterState(0, NoMultiSig)
    /\ pre_state = state
    /\ op = "none"
    /\ input = <<>>
    /\ result = Ok
    /\ calls = <<>>
    /\ events = <<>>
    /\ prepared = <<>>
    /\ transcript = <<>>
    /\ steps = 0
    /\ rerun = <<>>

Init ==
    /\ state \in {AdapterState(n, NoMultiSig) : n \in 0..MaxNonce}
                 \cup {AdapterState(0, cfg) : cfg \in MultiSigConfigs}
    /\ pre_state = state
    /\ op = "none"
    /\ input = <<>>
    /\ result = Ok
    /\ calls = <<>>
    /\ events = <<>>
    /\ prepared = <<>>
    /\ transcript = <<>>
    /\ steps = 0
    /\ rerun = <<>>
    /\ VersionedIdle
    /\ WireIdle
    /\ ContractIdle

\* An operation called with transactions in on the adapter returned context c
Returned(name, in, c) ==
    /\ op' = name
    /\ input' = in
    /\ pre_state' = state
    /\ state' = c.state
    /\ result' = c.err
    /\ calls' = c.calls
    /\ events' = c.events
    /\ prepared' = c.prepared
    /\ transcript' = c.transcript
    /\ steps' = steps + 1
    /\ rerun' = rerun
    /\ UNCHANGED <<versioned_vars, wire_vars, contract_vars>>

Verify ==
    /\ op = "none"
    /\ \E in \in Inputs :
          Returned("verify", <<in[1]>>, verify(in[1], state, in[2]))

VerifyBatch ==
    /\ op = "none"
    /\ \E in \in BatchInputs :
          Returned("verify_batch", in[1], verify_batch(in[1], state, in[2]))

ApplyWithoutVerify ==
    /\ op = "none"
    /\ \E in \in Inputs :
          Returned("apply_without_verify", <<in[1]>>,
                   apply_without_verify(in[1], state, in[2]))

ApplyWithPartialVerify ==
    /\ op = "none"
    /\ \E in \in Inputs :
          Returned("apply_with_partial_verify", <<in[1]>>,
                   apply_with_partial_verify(in[1], state, in[2]))

Next == Verify \/ VerifyBatch \/ ApplyWithoutVerify \/ ApplyWithPartialVerify

Spec == Init /\ [][Next]_vars

(***************************************************************************)
(* Sequences of operations on one adapter: every operation starts on the   *)
(* adapter state the one before it left.                                   *)
(***************************************************************************)
\* The transfer of the spec's first scenario, with every nonce
SeqTxs ==
    {Tx("alice", nonce, 1, Transfers(<<Transfer("bob", XELIS_ASSET, 1)>>),
        <<SourceCommitment(XELIS_ASSET)>>) : nonce \in 0..MaxNonce}

SeqInit ==
    /\ state = AdapterState(0, NoMultiSig)
    /\ pre_state = state
    /\ op = "none"
    /\ input = <<>>
    /\ result = Ok
    /\ calls = <<>>
    /\ events = <<>>
    /\ prepared = <<>>
    /\ transcript = <<>>
    /\ steps = 0
    /\ rerun = <<>>
    /\ VersionedIdle
    /\ WireIdle
    /\ ContractIdle

SeqVerify ==
    /\ steps < MaxSteps
    /\ \E tx \in SeqTxs : Returned("verify", <<tx>>, verify(tx, state, 0))

SeqVerifyBatch ==
    /\ steps < MaxSteps
    /\ \E tx1 \in SeqTxs, tx2 \in SeqTxs :
          Returned("verify_batch", <<tx1, tx2>>, verify_batch(<<tx1, tx2>>, state, 0))

SeqApplyWithoutVerify ==
    /\ steps < MaxSteps
    /\ \E tx \in SeqTxs :
          Returned("apply_without_verify", <<tx>>, apply_without_verify(tx, state, 0))

SeqApplyWithPartialVerify ==
    /\ steps < MaxSteps
    /\ \E tx \in SeqTxs :
          Returned("apply_with_partial_verify", <<tx>>,
                   apply_with_partial_verify(tx, state, 0))

SeqNext ==
    SeqVerify \/ SeqVerifyBatch \/ SeqApplyWithoutVerify \/ SeqApplyWithPartialVerify

SeqSpec == SeqInit /\ [][SeqNext]_vars

(***************************************************************************)
(* Two runs of verify_batch on the same transactions and equal adapters    *)
(***************************************************************************)

\* The adapter call that failed in a run (0: none did); the second adapter is
\* in the same condition as the first
FaultOf(log) ==
    IF \E k \in DOMAIN log : ~log[k].ok
    THEN CHOOSE k \in DOMAIN log : ~log[k].ok
    ELSE 0

Outcome(c) == [result |-> c.err, state |-> c.state, calls |-> c.calls]

\* verify_batch once more, on the transactions of the first run and an
\* adapter equal to the one the first run started from
Rerun ==
    /\ op = "verify_batch"
    /\ rerun = <<>>
    /\ rerun' = <<Outcome(verify_batch(input, pre_state, FaultOf(calls)))>>
    /\ steps' = steps + 1
    /\ UNCHANGED <<state, pre_state, op, input, result, calls, events, prepared,
                   transcript>>
    /\ UNCHANGED <<versioned_vars, wire_vars, contract_vars>>

TwinNext == VerifyBatch \/ Rerun

TwinSpec == Init /\ [][TwinNext]_vars

(***************************************************************************)
(* A VersionedState and the mark_updated calls made on it                  *)
(***************************************************************************)

VersionedStates ==
    {New} \cup {FetchedAt(t) : t \in 0..MaxTopoheight}
          \cup {Updated(t) : t \in 0..MaxTopoheight}

VersionedInit ==
    /\ versioned \in VersionedStates
    /\ marked = <<versioned>>
    /\ VerifierIdle
    /\ WireIdle
    /\ ContractIdle

MarkUpdated ==
    /\ Len(marked) <= MaxMarks
    /\ versioned' = mark_updated(versioned)
    /\ marked' = Append(marked, versioned')
    /\ UNCHANGED <<verifier_vars, wire_vars, contract_vars>>

VersionedNext == MarkUpdated

VersionedSpec == VersionedInit /\ [][VersionedNext]_vars

(***************************************************************************)
(* A Versioned<T> written to a Writer and read back                        *)
(***************************************************************************)

WireValues == {lo + 256 * hi : lo \in 0..MaxWire, hi \in 0..MaxWire}
WireTopoheights == {NoTopoheight} \cup {SomeTopoheight(t) : t \in WireValues}

\* Versioned<u64> and Versioned<Versioned<u64>>
VersionedValues ==
    {Versioned("u64", data, previous) :
        data \in WireValues, previous \in WireTopoheights}
    \cup {Versioned("Versioned<u64>", Versioned("u64", data, inner), previous) :
            data \in WireValues, inner \in WireTopoheights,
            previous \in WireTopoheights}

WireInit ==
    /\ WireIdle
    /\ VerifierIdle
    /\ VersionedIdle
    /\ ContractIdle

\* value.write(&mut writer), value.size()
VersionedWrite ==
    /\ written = <<>>
    /\ \E value \in VersionedValues :
          written' = <<[value |-> value, bytes |-> versioned_write(value),
                       size |-> versioned_size(value)]>>
    /\ UNCHANGED <<readback, verifier_vars, versioned_vars, contract_vars>>

\* Versioned::<T>::read(&mut Reader::new(&bytes))
VersionedRead ==
    /\ written # <<>>
    /\ readback = <<>>
    /\ readback' = <<versioned_read(written[1].value.type, written[1].bytes)>>
    /\ UNCHANGED <<written, verifier_vars, versioned_vars, contract_vars>>

WireNext == VersionedWrite \/ VersionedRead

WireSpec == WireInit /\ [][WireNext]_vars

(***************************************************************************)
(* A contract invocation: the native functions the contract calls          *)
(***************************************************************************)

ContractHash == "contract_a"

\* The Context the VM enters the contract with: no ChainState, or a fresh one
\* with one deposit or two
Contexts ==
    {NoChainState,
     ChainState(TRUE, ContractHash, <<PublicDeposit(XELIS_ASSET, 50)>>),
     ChainState(FALSE, ContractHash,
                <<PublicDeposit("TOKEN", 1), PublicDeposit(XELIS_ASSET, 50)>>)}

\* transfer(destination, amount, asset), as registered at contract/mod.rs 284-295
TransferParams ==
    {<<AddressValue("bob"), U64Value(amount), HashValue(asset)>> :
        amount \in {1, MaxAmount}, asset \in Assets}

StorageKeys == {1, 2}
StorageValues == {U64Value(7), U64Value(42)}

\* The ContractStorage behind the invocation: empty, or a value under key 1
Backings ==
    {[key \in StorageKeys |-> NoConstant],
     [key \in StorageKeys |-> IF key = 1 THEN SomeConstant(U64Value(7)) ELSE NoConstant]}

ContractInit ==
    /\ context \in Contexts
    /\ entered = context
    /\ backing \in Backings
    /\ trace = <<>>
    /\ replay = <<>>
    /\ VerifierIdle
    /\ VersionedIdle
    /\ WireIdle

\* The invocation goes on: an Err from a native function aborts it
Running ==
    /\ replay = <<>>
    /\ Len(trace) < MaxCalls
    /\ \A k \in DOMAIN trace : trace[k].ret.ok

\* The contract called fn(params) and the host left done
Called(fn, params, done) ==
    /\ context' = done.context
    /\ trace' = Append(trace, [fn |-> fn, params |-> params, ret |-> done.ret,
                               log |-> done.log])
    /\ UNCHANGED <<entered, backing, replay, verifier_vars, versioned_vars, wire_vars>>

Println ==
    /\ Running
    /\ Called("println", <<StringValue("hello")>>,
              println_fn(<<StringValue("hello")>>, context))

Debug ==
    /\ Running
    /\ Called("debug", <<U64Value(1)>>, debug_fn(<<U64Value(1)>>, context))

GetContractHash ==
    /\ Running
    /\ Called("get_contract_hash", <<>>, get_contract_hash(<<>>, context))

GetDepositForAsset ==
    /\ Running
    /\ \E asset \in Assets :
          Called("get_deposit_for_asset", <<HashValue(asset)>>,
                 get_deposit_for_asset(<<HashValue(asset)>>, context))

GetBalanceForAsset ==
    /\ Running
    /\ Called("get_balance_for_asset", <<HashValue(XELIS_ASSET)>>,
              get_balance_for_asset(<<HashValue(XELIS_ASSET)>>, context))

ContractTransfer ==
    /\ Running
    /\ \E params \in TransferParams :
          Called("transfer", params, contract_transfer(params, context))

StorageLoad ==
    /\ Running
    /\ \E key \in StorageKeys :
          Called("load", <<U64Value(key)>>,
                 storage_load(<<U64Value(key)>>, context, backing))

StorageHas ==
    /\ Running
    /\ \E key \in StorageKeys :
          Called("has", <<U64Value(key)>>,
                 storage_has(<<U64Value(key)>>, context, backing))

StorageStore ==
    /\ Running
    /\ \E key \in StorageKeys, value \in StorageValues :
          Called("store", <<U64Value(key), value>>,
                 storage_store(<<U64Value(key), value>>, context))

StorageDelete ==
    /\ Running
    /\ \E key \in StorageKeys :
          Called("delete", <<U64Value(key)>>,
                 storage_delete(<<U64Value(key)>>, context))

ContractNext ==
    \/ Println \/ Debug \/ GetContractHash \/ GetDepositForAsset
    \/ GetBalanceForAsset \/ ContractTransfer
    \/ StorageLoad \/ StorageHas \/ StorageStore \/ StorageDelete

ContractSpec == ContractInit /\ [][ContractNext]_vars

(***************************************************************************)
(* Two executions of a contract that issue the same native calls           *)
(***************************************************************************)

\* The native function registered under a name, called
dispatch(fn, params, ctx, store) ==
    CASE fn = "println" -> println_fn(params, ctx)
      [] fn = "debug" -> debug_fn(params, ctx)
      [] fn = "get_contract_hash" -> get_contract_hash(params, ctx)
      [] fn = "get_deposit_for_asset" -> get_deposit_for_asset(params, ctx)
      [] fn = "get_balance_for_asset" -> get_balance_for_asset(params, ctx)
      [] fn = "transfer" -> contract_transfer(params, ctx)
      [] fn = "load" -> storage_load(params, ctx, store)
      [] fn = "has" -> storage_has(params, ctx, store)
      [] fn = "store" -> storage_store(params, ctx)
      [] OTHER -> storage_delete(params, ctx)

\* The calls tr[n..] made one after another from ctx, up to the first error
RECURSIVE execute(_, _, _, _, _)
execute(ctx, store, tr, n, rets) ==
    IF n > Len(tr) \/ (rets # <<>> /\ ~rets[Len(rets)].ok)
    THEN [context |-> ctx, rets |-> rets]
    ELSE execute(dispatch(tr[n].fn, tr[n].params, ctx, store).context, store, tr,
                 n + 1,
                 Append(rets, dispatch(tr[n].fn, tr[n].params, ctx, store).ret))

\* The same block, tx, contract, deposits and ContractStorage, the same calls
ExecuteAgain ==
    /\ trace # <<>>
    /\ replay = <<>>
    /\ replay' = <<execute(entered, backing, trace, 1, <<>>)>>
    /\ UNCHANGED <<context, entered, backing, trace, verifier_vars, versioned_vars,
                   wire_vars>>

ContractTwinNext == ContractNext \/ ExecuteAgain

ContractTwinSpec == ContractInit /\ [][ContractTwinNext]_vars

(***************************************************************************)
(* Reading the log of an operation                                         *)
(***************************************************************************)
\* The adapter state after a logged call made on s
ApplyCall(s, e) ==
    IF ~e.ok THEN s
    ELSE CASE e.fn = "update_account_nonce" -> [s EXCEPT !.nonces[e.key] = e.write]
           [] e.fn = "get_sender_balance" ->
                [s EXCEPT !.sender_balances[e.key][e.asset][e.reference] = e.write]
           [] e.fn = "get_receiver_balance" ->
                [s EXCEPT !.receiver_balances[e.key][e.asset] = e.write]
           [] e.fn = "add_sender_output" ->
                [s EXCEPT !.sender_outputs[e.key][e.asset] = e.write]
           [] e.fn = "set_multisig_state" -> [s EXCEPT !.multisig[e.key] = e.cfg]
           [] OTHER -> s

\* What a logged call read is what the adapter state s held
ReadMatches(s, e) ==
    ~e.ok
    \/ CASE e.fn = "get_account_nonce" -> e.read = s.nonces[e.key]
         [] e.fn = "update_account_nonce" -> e.read = s.nonces[e.key]
         [] e.fn = "get_sender_balance" ->
              e.read = s.sender_balances[e.key][e.asset][e.reference]
         [] e.fn = "get_receiver_balance" -> e.read = s.receiver_balances[e.key][e.asset]
         [] e.fn = "add_sender_output" ->
              e.write = s.sender_outputs[e.key][e.asset] + e.read
         [] e.fn = "get_multisig_state" -> e.cfg = s.multisig[e.key]
         [] OTHER -> TRUE

\* The adapter state after the first n calls of log, made on s
RECURSIVE Replay(_, _, _)
Replay(s, log, n) == IF n = 0 THEN s ELSE ApplyCall(Replay(s, log, n - 1), log[n])

\* The number of calls of log issued for the transactions before the i-th
CallsBefore(log, i) == Cardinality({k \in DOMAIN log : log[k].tx < i})

EventsOf(ev) == {k \in DOMAIN events : events[k].ev = ev}

PassedPreVerify(i) ==
    \E k \in EventsOf("pre_verify") : events[k].tx = i /\ events[k].ok
FailedPreVerify(i) ==
    \E k \in EventsOf("pre_verify") : events[k].tx = i /\ ~events[k].ok

(***************************************************************************)
(* Claims                                                                  *)
(***************************************************************************)
\* C1: whenever verify, or verify_batch on a single transaction, succeeds for
\* a transaction with nonce n from source S, the adapter's nonce of S was n
\* before the call and is n + 1 after it.
C1_NonceIsBumped ==
    (op \in {"verify", "verify_batch"} /\ Len(input) = 1 /\ result = Ok)
    => /\ pre_state.nonces[input[1].source] = input[1].nonce
       /\ state.nonces[input[1].source] = input[1].nonce + 1

C1_Witness ==
    /\ op = "verify" /\ result = Ok
    /\ input[1].nonce = 1
    /\ pre_state.nonces[input[1].source] = 1
    /\ state.nonces[input[1].source] = 2

\* C2, as claimed: a batch of two transactions of the same source with the
\* same nonce n, on a stored nonce n, whose first passes pre_verify, fails at
\* the second with InvalidNonce(n + 1, n).
SameNonceTwice ==
    /\ op = "verify_batch" /\ Len(input) = 2
    /\ input[1].source = input[2].source
    /\ input[1].nonce = input[2].nonce
    /\ pre_state.nonces[input[1].source] = input[1].nonce
    /\ PassedPreVerify(1)

C2_AsClaimed ==
    SameNonceTwice
    => /\ FailedPreVerify(2)
       /\ result = InvalidNonce(input[1].nonce + 1, input[1].nonce)

\* C2, amended: ... provided the second transaction passes the version-format
\* gate and the adapter answers its pre_verify_tx and get_account_nonce calls.
C2_ReplayIsRejected ==
    (/\ SameNonceTwice
     /\ ~(input[2].version = "V0"
          /\ (input[2].multisig.some \/ input[2].data.type = "MultiSig"))
     /\ result.tag # "State")
    => /\ FailedPreVerify(2)
       /\ result = InvalidNonce(input[1].nonce + 1, input[1].nonce)

C2_Witness ==
    /\ op = "verify_batch" /\ Len(input) = 2
    /\ input[1] = input[2]
    /\ pre_state.nonces[input[1].source] = 0
    /\ PassedPreVerify(1)
    /\ result = InvalidNonce(1, 0)

\* C3: verify_batch pre-verifies the transactions in array order on one
\* adapter: the adapter calls of txs[i] all come before those of txs[j] for
\* i < j, and every call reads what the calls before it, of this and of the
\* earlier transactions, have written (nonce, sender balance, receiver
\* balance, multisig configuration).
C3_ArrayOrderSharedAdapter ==
    op = "verify_batch"
    => /\ \A i, j \in DOMAIN calls : i < j => calls[i].tx <= calls[j].tx
       /\ \A k \in DOMAIN calls : ReadMatches(Replay(pre_state, calls, k - 1), calls[k])
       /\ \A k \in DOMAIN events : k < Len(events) =>
             events[k].tx <= events[k + 1].tx

C3_Witness ==
    /\ op = "verify_batch" /\ Len(input) = 2 /\ result = Ok
    /\ \E k \in DOMAIN calls :
          /\ calls[k].tx = 2 /\ calls[k].fn = "get_account_nonce"
          /\ calls[k].read = pre_state.nonces[calls[k].key] + 1
    /\ \E k \in DOMAIN calls :
          /\ calls[k].tx = 2 /\ calls[k].fn = "get_sender_balance"
          /\ calls[k].read <
               pre_state.sender_balances[calls[k].key][calls[k].asset][calls[k].reference]

\* C4: verify_batch aborts at the first transaction whose pre_verify fails:
\* it returns that transaction's error, issues no adapter call for a later
\* transaction, and leaves in the adapter every write made by the earlier
\* transactions and by the failing one.
C4_BatchAbortsAtFirstFailure ==
    \A i \in DOMAIN input :
        (op = "verify_batch" /\ FailedPreVerify(i))
        => /\ \A j \in 1..(i - 1) : PassedPreVerify(j)
           /\ \A k \in DOMAIN calls : calls[k].tx <= i
           /\ \A k \in DOMAIN events : events[k].tx <= i /\ events[k].ev = "pre_verify"
           /\ result # Ok
           /\ result = IF calls # <<>> /\ ~calls[Len(calls)].ok
                       THEN Err("State")
                       ELSE pre_verify_stages(
                                NewContext(Replay(pre_state, calls, CallsBefore(calls, i)), 0),
                                input[i]).err
           /\ state = Replay(pre_state, calls, Len(calls))

C4_Witness ==
    /\ op = "verify_batch" /\ Len(input) = 2
    /\ FailedPreVerify(1)
    /\ result = Proof("Format")
    /\ state.nonces[input[1].source] = pre_state.nonces[input[1].source] + 1
    /\ \E a \in Assets :
          state.sender_balances[input[1].source][a][input[1].reference]
            < pre_state.sender_balances[input[1].source][a][input[1].reference]

\* C5: in verify_batch the sigma batch is verified at most once, and only
\* when every transaction has been pre-verified successfully, after the last
\* adapter call; the range proofs are checked only after the sigma check has
\* succeeded; a failed sigma check yields Proof(GenericProof) and no
\* range-proof check.
C5_SigmaOnceThenRangeProof ==
    op = "verify_batch"
    => LET sigma == EventsOf("sigma_batch_verify")
           range == EventsOf("range_proof_verify")
       IN  /\ Cardinality(sigma) <= 1 /\ Cardinality(range) <= 1
           /\ (sigma # {}) <=> (\A i \in DOMAIN input : PassedPreVerify(i))
           /\ \A k \in sigma :
                 /\ k = Len(input) + 1
                 /\ events[k].at = Len(calls)
                 /\ ~events[k].ok => (result = Proof("GenericProof") /\ range = {})
                 /\ events[k].ok => range = {k + 1}
           /\ range # {} => sigma # {}

C5_Witness ==
    /\ op = "verify_batch" /\ Len(input) = 2
    /\ PassedPreVerify(1) /\ PassedPreVerify(2)
    /\ result = Proof("GenericProof")
    /\ EventsOf("range_proof_verify") = {}

\* C6, as claimed: if apply_with_partial_verify returns any error, an adapter
\* error State(E) at any adapter call included, the adapter state equals the
\* state before the call.
C6_AsClaimed ==
    (op = "apply_with_partial_verify" /\ result # Ok) => state = pre_state

\* The sigma check of apply_with_partial_verify has succeeded: the writes begin
ReachedCommit == \E k \in EventsOf("sigma_batch_verify") : events[k].ok

\* Beside C6: an error raised before the writes begin leaves the adapter
\* state as it was, and the only error after them is an adapter error.
NoMutationBeforeCommit ==
    (op = "apply_with_partial_verify" /\ result # Ok)
    => /\ ~ReachedCommit => state = pre_state
       /\ ReachedCommit => result = Err("State")

\* The adapter fails during the writes: the writes already made stay
C6_Witness ==
    /\ op = "apply_with_partial_verify"
    /\ result = Err("State")
    /\ ReachedCommit
    /\ state.sender_balances # pre_state.sender_balances

\* C7, as claimed: for every transaction and adapter state from which verify
\* succeeds, apply_without_verify run from that state instead (the adapter
\* answering every call) leaves the adapter state verify leaves.
C7_AsClaimed ==
    (/\ op = "apply_without_verify" /\ result = Ok
     /\ verify(input[1], pre_state, 0).err = Ok)
    => state = verify(input[1], pre_state, 0).state

\* Beside C7: the two agree on every transaction that is not a Burn
MirrorsUnlessBurn ==
    (/\ op = "apply_without_verify" /\ result = Ok
     /\ input[1].data.type # "Burn"
     /\ verify(input[1], pre_state, 0).err = Ok)
    => state = verify(input[1], pre_state, 0).state

\* A Burn that verify accepts: verify credits the burnt amount to the
\* burner's receiver balance, apply_without_verify credits nothing
C7_Witness ==
    /\ op = "apply_without_verify" /\ result = Ok
    /\ input[1].data.type = "Burn"
    /\ state.receiver_balances = pre_state.receiver_balances
    /\ LET v == verify(input[1], pre_state, 0)
       IN  /\ v.err = Ok
           /\ v.state.receiver_balances[input[1].source][input[1].data.asset]
                = pre_state.receiver_balances[input[1].source][input[1].data.asset]
                  + input[1].data.amount
           /\ v.state.nonces = state.nonces
           /\ v.state.sender_balances = state.sender_balances

RECURSIVE SumOf(_, _)
SumOf(f, S) ==
    IF S = {} THEN 0
    ELSE LET x == CHOOSE y \in S : TRUE IN f[x] + SumOf(f, S \ {x})

\* What the last operation took from the sender balances of an asset, and
\* what it added to the receiver balances of that asset
Debited(asset) ==
    SumOf([kr \in AllKeys \X References |->
              pre_state.sender_balances[kr[1]][asset][kr[2]]
              - state.sender_balances[kr[1]][asset][kr[2]]],
          AllKeys \X References)
Credited(asset) ==
    SumOf([k \in AllKeys |->
              state.receiver_balances[k][asset] - pre_state.receiver_balances[k][asset]],
          AllKeys)
FeesPaid == SumOf([i \in DOMAIN input |-> input[i].fee], DOMAIN input)

\* C8: balance conservation of a successful verification (verify, and
\* verify_batch over its transactions), whatever the payload: for an asset
\* other than the native one the amount taken from sender balances equals the
\* amount added to receiver balances; for the native asset it exceeds it by
\* exactly the fee.
C8_BalanceConservation ==
    (op \in {"verify", "verify_batch"} /\ result = Ok)
    => \A asset \in Assets :
          Debited(asset) - Credited(asset) = IF asset = XELIS_ASSET THEN FeesPaid ELSE 0

C8_Witness ==
    /\ op = "verify" /\ result = Ok
    /\ input[1].fee = 1
    /\ Len(input[1].data.transfers) = 2
    /\ Debited("TOKEN") = 2 /\ Credited("TOKEN") = 2
    /\ Debited(XELIS_ASSET) = 2 /\ Credited(XELIS_ASSET) = 1

\* The amount a transaction spends of an asset: the fee if the asset is the
\* native one, its transfers of the asset, its burn of the asset
Spent(tx, asset) ==
    (IF asset = XELIS_ASSET THEN tx.fee ELSE 0)
    + SumOf([i \in DOMAIN tx.data.transfers |-> tx.data.transfers[i].amount],
            {i \in DOMAIN tx.data.transfers : tx.data.transfers[i].asset = asset})
    + (IF tx.data.type = "Burn" /\ tx.data.asset = asset THEN tx.data.amount ELSE 0)

CallsOf(fn) == SelectSeq(calls, LAMBDA e : e.fn = fn)

\* C9: on a successful verify, for each entry of source_commitments the
\* sender's balance of that asset at tx.reference has decreased by exactly
\* the amount spent of it and add_sender_output was passed that amount; the
\* sender's balances at other references are untouched; the i-th credit adds
\* exactly the i-th transfer's amount to the balance its destination has of
\* its asset; the nonce is one more.
C9_ExactDebitsAndCredits ==
    (op = "verify" /\ result = Ok)
    => LET tx == input[1]
           outputs == CallsOf("add_sender_output")
           credits == CallsOf("get_receiver_balance")
       IN  /\ Len(outputs) = Len(tx.source_commitments)
           /\ \A i \in DOMAIN tx.source_commitments :
                 LET asset == tx.source_commitments[i].asset IN
                 /\ state.sender_balances[tx.source][asset][tx.reference]
                      = pre_state.sender_balances[tx.source][asset][tx.reference]
                        - Spent(tx, asset)
                 /\ outputs[i].key = tx.source /\ outputs[i].asset = asset
                 /\ outputs[i].read = Spent(tx, asset)
                 /\ state.sender_outputs[tx.source][asset]
                      = pre_state.sender_outputs[tx.source][asset] + Spent(tx, asset)
           /\ \A r \in References \ {tx.reference} : \A a \in Assets :
                 state.sender_balances[tx.source][a][r]
                   = pre_state.sender_balances[tx.source][a][r]
           /\ tx.data.type = "Transfers" =>
                /\ Len(credits) = Len(tx.data.transfers)
                /\ \A i \in DOMAIN tx.data.transfers :
                      /\ credits[i].key = tx.data.transfers[i].destination
                      /\ credits[i].asset = tx.data.transfers[i].asset
                      /\ credits[i].write = credits[i].read + tx.data.transfers[i].amount
                /\ \A k \in AllKeys, a \in Assets :
                      state.receiver_balances[k][a]
                        = pre_state.receiver_balances[k][a]
                          + SumOf([i \in DOMAIN tx.data.transfers |->
                                      tx.data.transfers[i].amount],
                                  {i \in DOMAIN tx.data.transfers :
                                      /\ tx.data.transfers[i].destination = k
                                      /\ tx.data.transfers[i].asset = a})
           /\ state.nonces[tx.source] = pre_state.nonces[tx.source] + 1

\* balance 100, send 2 with fee 1: sender 97, receiver 2, nonce 1
C9_Witness ==
    /\ op = "verify" /\ result = Ok
    /\ input[1].nonce = 0 /\ input[1].fee = 1
    /\ input[1].data.transfers = <<Transfer("bob", XELIS_ASSET, 2)>>
    /\ pre_state.sender_balances["alice"][XELIS_ASSET]["ref_a"] = 100
    /\ state.sender_balances["alice"][XELIS_ASSET]["ref_a"] = 97
    /\ state.receiver_balances["bob"][XELIS_ASSET] = 2
    /\ state.nonces["alice"] = 1

\* The assets a transaction's payload refers to
ReferencedAssets(tx) ==
    {tx.data.transfers[i].asset : i \in DOMAIN tx.data.transfers}
    \cup (IF tx.data.type = "Burn" THEN {tx.data.asset} ELSE {})

CommittedAssets(tx) == {tx.source_commitments[i].asset : i \in DOMAIN tx.source_commitments}

\* source_commitments holds the native asset, no asset twice, and every
\* asset the payload refers to
Covered(tx) ==
    /\ XELIS_ASSET \in CommittedAssets(tx)
    /\ Cardinality(CommittedAssets(tx)) = Len(tx.source_commitments)
    /\ ReferencedAssets(tx) \subseteq CommittedAssets(tx)

\* C10, as claimed: a transaction passes verification only if its source
\* commitments cover it; otherwise pre_verify fails with Commitments.
C10_AsClaimed ==
    op = "verify"
    => /\ result = Ok => Covered(input[1])
       /\ ~Covered(input[1]) => result = Err("Commitments")

\* The format gate, the pre_verify_tx hook and the nonce check have passed
PassedNonceCheck ==
    /\ Len(calls) >= 3
    /\ calls[3].fn = "update_account_nonce" /\ calls[3].ok

\* C10, amended: a transaction passes verification only if its source
\* commitments cover it; otherwise, once it has passed the format gate, the
\* pre_verify_tx hook and the nonce check, pre_verify fails with Commitments
\* (before them it fails with their error).
C10_AssetCoverage ==
    op = "verify"
    => /\ result = Ok => Covered(input[1])
       /\ (~Covered(input[1]) /\ PassedNonceCheck)
             => (result = Err("Commitments") /\ Len(calls) = 3)
       /\ (~Covered(input[1]) /\ ~PassedNonceCheck)
             => result.tag \in {"InvalidFormat", "State", "InvalidNonce"}

C10_Witness ==
    /\ op = "verify" /\ result = Err("Commitments")
    /\ Len(input[1].data.transfers) = 2
    /\ ReferencedAssets(input[1]) = Assets
    /\ CommittedAssets(input[1]) = {XELIS_ASSET}

\* A V0 transaction with a multisig signature section or a MultiSig payload
CarriesMultiSigInV0(tx) ==
    tx.version = "V0" /\ (tx.multisig.some \/ tx.data.type = "MultiSig")

\* The i-th transaction of the input was handed to pre_verify
Reached(i) == \E k \in EventsOf("pre_verify") : events[k].tx = i

CallsFor(i) == SelectSeq(calls, LAMBDA e : e.tx = i)

\* C11: the format gate. A V0 transaction with a multisig signature section
\* or a MultiSig payload handed to pre_verify (by verify or verify_batch) is
\* rejected with InvalidFormat and no adapter call is made for it, not even
\* pre_verify_tx, so a lone one leaves the adapter state as it was; for a V1
\* transaction the first thing pre_verify does is call pre_verify_tx.
C11_FormatGate ==
    op \in {"verify", "verify_batch"}
    => \A i \in DOMAIN input :
          Reached(i) =>
            /\ CarriesMultiSigInV0(input[i]) =>
                  /\ result = Err("InvalidFormat")
                  /\ FailedPreVerify(i)
                  /\ CallsFor(i) = <<>>
                  /\ i = 1 => state = pre_state
            /\ input[i].version = "V1" =>
                  /\ CallsFor(i) # <<>>
                  /\ CallsFor(i)[1].fn = "pre_verify_tx"

\* A V0 transaction with an empty multisig section and a Transfers payload
C11_Witness ==
    /\ op = "verify"
    /\ input[1].version = "V0" /\ input[1].multisig.some
    /\ input[1].data.type = "Transfers"
    /\ result = Err("InvalidFormat")
    /\ calls = <<>> /\ state = pre_state

\* C12, as claimed: if the stored nonce a of the source differs from tx.nonce,
\* pre_verify fails with InvalidNonce(a, tx.nonce) and the adapter state is
\* unchanged.
C12_AsClaimed ==
    (op = "verify" /\ pre_state.nonces[input[1].source] # input[1].nonce)
    => /\ result = InvalidNonce(pre_state.nonces[input[1].source], input[1].nonce)
       /\ state = pre_state

\* C12, amended: if the stored nonce a of the source differs from tx.nonce,
\* pre_verify fails, having issued no mutating adapter call (at most
\* pre_verify_tx and get_account_nonce), and the adapter state is unchanged;
\* the error is InvalidNonce(a, tx.nonce) once the transaction has passed the
\* format gate and the adapter has answered pre_verify_tx and
\* get_account_nonce, InvalidFormat at the format gate, State(E) if one of the
\* two adapter calls fails.
C12_NonceMismatch ==
    (op = "verify" /\ pre_state.nonces[input[1].source] # input[1].nonce)
    => /\ state = pre_state
       /\ \A k \in DOMAIN calls : calls[k].fn \in {"pre_verify_tx", "get_account_nonce"}
       /\ result =
            IF CarriesMultiSigInV0(input[1]) THEN Err("InvalidFormat")
            ELSE IF \E k \in DOMAIN calls : ~calls[k].ok THEN Err("State")
            ELSE InvalidNonce(pre_state.nonces[input[1].source], input[1].nonce)
       /\ (result.tag = "InvalidNonce") = (Len(calls) = 2 /\ calls[2].ok)

C12_Witness ==
    /\ op = "verify"
    /\ pre_state.nonces["alice"] = 1 /\ input[1].source = "alice" /\ input[1].nonce = 0
    /\ result = InvalidNonce(1, 0)
    /\ Len(calls) = 2 /\ calls[2].fn = "get_account_nonce" /\ calls[2].read = 1
    /\ state = pre_state

\* C13, as claimed: over any sequence of verify, verify_batch,
\* apply_without_verify and apply_with_partial_verify calls on one adapter,
\* no operation leaves the stored nonce of an account lower than it found it.
C13_AsClaimed ==
    \A k \in AllKeys : state.nonces[k] >= pre_state.nonces[k]

\* Beside C13: verify, verify_batch and apply_with_partial_verify never lower
\* a nonce, and apply_without_verify leaves tx.nonce + 1 whatever it found
NonceNeverDecreasesUnlessApplied ==
    /\ op \in {"verify", "verify_batch", "apply_with_partial_verify"}
          => \A k \in AllKeys : state.nonces[k] >= pre_state.nonces[k]
    /\ (op = "apply_without_verify" /\ result = Ok)
          => state.nonces[input[1].source] = input[1].nonce + 1

\* Two verified transactions raise the nonce to 2; apply_without_verify of a
\* transaction with nonce 0 then leaves it at 1
C13_Witness ==
    /\ op = "apply_without_verify" /\ result = Ok
    /\ steps = 3
    /\ input[1].nonce = 0
    /\ pre_state.nonces["alice"] = 2
    /\ state.nonces["alice"] = 1

\* The payload checks of a Transfers transaction are reached: the format
\* gate, the nonce check and the asset coverage have passed
ReachedPayloadChecks == PassedNonceCheck /\ Covered(input[1])

TransferErrors ==
    {Err("TransferCount"), Err("SenderIsReceiver"),
     Err("TransferExtraDataSize"), Err("TransactionExtraDataSize")}

CountOk(tx) == 1 <= Len(tx.data.transfers) /\ Len(tx.data.transfers) <= MAX_TRANSFER_COUNT
NoSelfTransfer(tx) ==
    \A i \in DOMAIN tx.data.transfers : tx.data.transfers[i].destination # tx.source
EachExtraDataOk(tx) ==
    \A i \in DOMAIN tx.data.transfers :
        tx.data.transfers[i].extra_data <= EXTRA_DATA_LIMIT_SIZE
ExtraDataSum(tx) ==
    SumOf([i \in DOMAIN tx.data.transfers |-> tx.data.transfers[i].extra_data],
          {i \in DOMAIN tx.data.transfers : tx.data.transfers[i].extra_data >= 0})
ExtraDataSumOk(tx) == ExtraDataSum(tx) <= EXTRA_DATA_LIMIT_SUM_SIZE

\* C14: the validation of a Transfers payload. A Transfers transaction that
\* reaches it passes it iff 1 <= |transfers| <= MAX_TRANSFER_COUNT, no
\* destination is the source, every extra data size is <= EXTRA_DATA_LIMIT_SIZE
\* and their sum is <= EXTRA_DATA_LIMIT_SUM_SIZE; TransferCount,
\* SenderIsReceiver, TransferExtraDataSize and TransactionExtraDataSize are
\* only returned for a violation of the respective condition, and a
\* transaction violating one condition only gets that condition's error.
C14_TransfersValidation ==
    (op = "verify" /\ input[1].data.type = "Transfers" /\ ReachedPayloadChecks)
    => LET tx == input[1] IN
       /\ (result \notin TransferErrors)
            = (CountOk(tx) /\ NoSelfTransfer(tx) /\ EachExtraDataOk(tx) /\ ExtraDataSumOk(tx))
       /\ result = Err("TransferCount") => ~CountOk(tx)
       /\ result = Err("SenderIsReceiver") => ~NoSelfTransfer(tx)
       /\ result = Err("TransferExtraDataSize") => ~EachExtraDataOk(tx)
       /\ result = Err("TransactionExtraDataSize") => ~ExtraDataSumOk(tx)
       /\ (~CountOk(tx) /\ NoSelfTransfer(tx) /\ EachExtraDataOk(tx) /\ ExtraDataSumOk(tx))
            => result = Err("TransferCount")
       /\ (CountOk(tx) /\ ~NoSelfTransfer(tx) /\ EachExtraDataOk(tx) /\ ExtraDataSumOk(tx))
            => result = Err("SenderIsReceiver")
       /\ (CountOk(tx) /\ NoSelfTransfer(tx) /\ ~EachExtraDataOk(tx))
            => result = Err("TransferExtraDataSize")
       /\ (CountOk(tx) /\ NoSelfTransfer(tx) /\ EachExtraDataOk(tx) /\ ~ExtraDataSumOk(tx))
            => result = Err("TransactionExtraDataSize")

\* An extra data of exactly the limit is accepted
C14_Witness ==
    /\ op = "verify" /\ result = Ok
    /\ Len(input[1].data.transfers) = MAX_TRANSFER_COUNT
    /\ input[1].data.transfers[1].extra_data = EXTRA_DATA_LIMIT_SIZE
    /\ ExtraDataSum(input[1]) = EXTRA_DATA_LIMIT_SUM_SIZE

\* One more than the limit is rejected
C14_WitnessOverLimit ==
    /\ op = "verify" /\ result = Err("TransferExtraDataSize")
    /\ input[1].data.transfers[1].extra_data = EXTRA_DATA_LIMIT_SIZE + 1

C14_WitnessSum ==
    /\ op = "verify" /\ result = Err("TransactionExtraDataSize")
    /\ EachExtraDataOk(input[1])

C14_WitnessCount ==
    /\ op = "verify" /\ result = Err("TransferCount")
    /\ Len(input[1].data.transfers) = MAX_TRANSFER_COUNT + 1

\* C15, as claimed: for a Burn transaction whose fee + amount exceeds the
\* 64-bit unsigned range, pre_verify fails with InvalidFormat.
C15_AsClaimed ==
    (/\ op = "verify" /\ input[1].data.type = "Burn"
     /\ input[1].fee + input[1].data.amount > U64_MAX)
    => result = Err("InvalidFormat")

\* C15, amended: for a Burn transaction that has passed the format gate, the
\* pre_verify_tx hook, the nonce check and the asset coverage check, if
\* fee + amount exceeds the 64-bit unsigned range pre_verify fails with
\* InvalidFormat before any balance is touched, and no wrapped sum is ever
\* subtracted; if the sum fits, this check passes (InvalidFormat is not
\* returned at this point) and the amount subtracted is the exact sum.
C15_BurnOverflow ==
    (op = "verify" /\ input[1].data.type = "Burn")
    => LET tx == input[1]
           total == tx.fee + tx.data.amount
       IN  /\ (ReachedPayloadChecks /\ total > U64_MAX)
                => (result = Err("InvalidFormat") /\ Len(calls) = 3)
           /\ (ReachedPayloadChecks /\ total <= U64_MAX)
                => ~(result = Err("InvalidFormat") /\ Len(calls) = 3)
           /\ total > U64_MAX => CallsOf("get_sender_balance") = <<>>
           /\ \A k \in DOMAIN calls :
                 (calls[k].fn = "add_sender_output" /\ calls[k].ok)
                    => /\ calls[k].read = Spent(tx, calls[k].asset)
                       /\ calls[k].read <= U64_MAX

\* amount = u64::MAX - fee + 1
C15_Witness ==
    /\ op = "verify" /\ input[1].data.type = "Burn"
    /\ input[1].fee = 1 /\ input[1].data.amount = U64_MAX - input[1].fee + 1
    /\ result = Err("InvalidFormat")
    /\ Len(calls) = 3

\* amount = u64::MAX - fee: the sum fits
C15_WitnessFits ==
    /\ op = "verify" /\ input[1].data.type = "Burn"
    /\ input[1].fee = 1 /\ input[1].data.amount = U64_MAX - input[1].fee
    /\ input[1].data.asset = XELIS_ASSET
    /\ result = Ok
    /\ state.sender_balances["alice"][XELIS_ASSET]["ref_a"] = InitBalance - U64_MAX

\* A MultiSig transaction has gone through every stage before the match on
\* its payload: the last source commitment has been recorded
ReachedMultiSigPayload ==
    LET last == 4 + 2 * Len(input[1].source_commitments)
    IN  /\ op = "verify" /\ input[1].data.type = "MultiSig"
        /\ Len(input[1].source_commitments) >= 1
        /\ Len(calls) >= last
        /\ calls[last].fn = "add_sender_output" /\ calls[last].ok

\* The calls the payload arm made
MultiSigPayloadCalls ==
    SubSeq(calls, 4 + 2 * Len(input[1].source_commitments) + 1, Len(calls))

\* C16: MultiSig payload validation, for a transaction that reaches it: more
\* than MAX_MULTISIG_PARTICIPANTS participants fail with MultiSigParticipants;
\* otherwise a threshold above the number of participants fails with
\* MultiSigThreshold; otherwise a reset (threshold 0, participants not empty)
\* fails with MultiSigNotConfigured when the adapter reports no configuration
\* for the source; threshold 0 with no participant is accepted and passed to
\* set_multisig_state, which clears the configuration.
C16_MultiSigPayload ==
    ReachedMultiSigPayload
    => LET payload == input[1].data
           n == Len(payload.participants)
           after == MultiSigPayloadCalls
       IN  /\ n > MAX_MULTISIG_PARTICIPANTS
                => (result = Err("MultiSigParticipants") /\ after = <<>>)
           /\ (n <= MAX_MULTISIG_PARTICIPANTS /\ payload.threshold > n)
                => (result = Err("MultiSigThreshold") /\ after = <<>>)
           /\ (payload.threshold = 0 /\ n > 0 /\ n <= MAX_MULTISIG_PARTICIPANTS)
                => /\ after # <<>>
                   /\ after[1].fn = "get_multisig_state"
                   /\ (after[1].ok /\ ~pre_state.multisig[input[1].source].some)
                        => (result = Err("MultiSigNotConfigured") /\ Len(after) = 1)
           /\ (payload.threshold = 0 /\ n = 0)
                => /\ Len(after) = 1
                   /\ after[1].fn = "set_multisig_state"
                   /\ after[1].ok => (/\ result \in {Ok, Proof("Range")}
                                      /\ after[1].cfg = NoMultiSig
                                      /\ ~state.multisig[input[1].source].some)

\* a reset by a source that has no configuration
C16_Witness ==
    /\ ReachedMultiSigPayload
    /\ input[1].data.threshold = 0
    /\ Len(input[1].data.participants) > 0
    /\ ~pre_state.multisig[input[1].source].some
    /\ result = Err("MultiSigNotConfigured")

C16_WitnessTooMany ==
    /\ ReachedMultiSigPayload
    /\ Len(input[1].data.participants) > MAX_MULTISIG_PARTICIPANTS
    /\ input[1].data.threshold > Len(input[1].data.participants)
    /\ result = Err("MultiSigParticipants")

C16_WitnessThreshold ==
    /\ ReachedMultiSigPayload
    /\ result = Err("MultiSigThreshold")

\* a clear of an existing configuration
C16_WitnessClear ==
    /\ ReachedMultiSigPayload
    /\ input[1].data.threshold = 0 /\ input[1].data.participants = <<>>
    /\ pre_state.multisig[input[1].source].some
    /\ ~state.multisig[input[1].source].some
    /\ result = Ok

\* a reset of an existing configuration
C16_WitnessReset ==
    /\ ReachedMultiSigPayload
    /\ input[1].data.threshold = 0 /\ Len(input[1].data.participants) > 0
    /\ pre_state.multisig[input[1].source].some
    /\ result = Ok

\* pre_verify has asked the adapter for the multisig configuration of the
\* source and got an answer
ReachedMultiSig ==
    /\ op = "verify"
    /\ Len(calls) >= 4
    /\ calls[4].fn = "get_multisig_state" /\ calls[4].ok

\* The multisig enforcement let the transaction through: pre_verify went on
\* to the source commitments
PassedMultiSig == ReachedMultiSig /\ Len(calls) >= 5

SigValidFor(config, sig) ==
    /\ sig.id < Len(config.participants)
    /\ sig.signature = config.participants[sig.id + 1]

\* C17: multisig enforcement, for a transaction that reaches it. When the
\* adapter reports a configuration with threshold t, the transaction passes
\* only if it carries a multisig section with exactly t signatures
\* (t <= MAX_MULTISIG_PARTICIPANTS), each with an index inside participants
\* and valid for participants[index]; a missing section is rejected with
\* MultiSigNotFound, a wrong count with MultiSigParticipants, and the first
\* signature that is not valid with MultiSigParticipants when its index is out
\* of range and InvalidSignature otherwise. When the adapter reports no
\* configuration and the transaction carries a multisig section it fails with
\* MultiSigNotConfigured.
C17_MultiSigEnforcement ==
    ReachedMultiSig
    => LET config == calls[4].cfg
           multisig == input[1].multisig
           sigs == multisig.sigs
           bad == {i \in DOMAIN sigs : ~SigValidFor(config, sigs[i])}
           first == CHOOSE i \in bad : \A j \in bad : i <= j
           well_signed == /\ multisig.some
                          /\ Len(sigs) = config.threshold
                          /\ config.threshold <= MAX_MULTISIG_PARTICIPANTS
                          /\ bad = {}
       IN  /\ config = pre_state.multisig[input[1].source]
           /\ config.some
                => /\ PassedMultiSig <=> well_signed
                   /\ ~multisig.some => result = Err("MultiSigNotFound")
                   /\ (multisig.some /\ Len(sigs) # config.threshold)
                        => result = Err("MultiSigParticipants")
                   /\ (multisig.some /\ Len(sigs) = config.threshold /\ bad # {})
                        => result = IF sigs[first].id >= Len(config.participants)
                                    THEN Err("MultiSigParticipants")
                                    ELSE Err("InvalidSignature")
           /\ ~config.some
                => /\ PassedMultiSig <=> ~multisig.some
                   /\ multisig.some => result = Err("MultiSigNotConfigured")

\* 2-of-2 configured, the transaction presents one valid signature
C17_Witness ==
    /\ ReachedMultiSig
    /\ calls[4].cfg.some /\ calls[4].cfg.threshold = 2
    /\ input[1].multisig.some /\ Len(input[1].multisig.sigs) = 1
    /\ SigValidFor(calls[4].cfg, input[1].multisig.sigs[1])
    /\ result = Err("MultiSigParticipants")

\* the same with two valid signatures
C17_WitnessOk ==
    /\ ReachedMultiSig
    /\ calls[4].cfg.some /\ calls[4].cfg.threshold = 2
    /\ input[1].multisig.some /\ Len(input[1].multisig.sigs) = 2
    /\ input[1].multisig.sigs[1] # input[1].multisig.sigs[2]
    /\ result = Ok

C17_WitnessNotFound == ReachedMultiSig /\ result = Err("MultiSigNotFound")

C17_WitnessBadSignature ==
    /\ ReachedMultiSig /\ calls[4].cfg.some
    /\ Len(input[1].multisig.sigs) = calls[4].cfg.threshold
    /\ result = Err("InvalidSignature")

C17_WitnessIndex ==
    /\ ReachedMultiSig /\ calls[4].cfg.some
    /\ Len(input[1].multisig.sigs) = calls[4].cfg.threshold
    /\ result = Err("MultiSigParticipants")

C17_WitnessNotConfigured ==
    /\ ReachedMultiSig /\ ~calls[4].cfg.some
    /\ result = Err("MultiSigNotConfigured")

RECURSIVE IsPowerOfTwo(_)
IsPowerOfTwo(n) == n = 1 \/ (n > 1 /\ n % 2 = 0 /\ IsPowerOfTwo(n \div 2))

\* The pairs pre_verify has to produce for a transaction
RealCommitments(tx) ==
    [i \in 1..Len(tx.source_commitments) |-> [kind |-> "source", id |-> i]]
    \o [i \in 1..Len(tx.data.transfers) |-> [kind |-> "transfer", id |-> i]]

\* C18: the value-commitment vector pre_verify returns has length
\* next_power_of_two(|source_commitments| + |transfers|), the least power of
\* two that is not below the number of real commitments, and is laid out as the
\* source-commitment pairs in source_commitments order, then the transfer
\* pairs in transfer order, then only (identity, identity) pairs.
C18_CommitmentLayout ==
    (op \in {"verify", "verify_batch"})
    => \A j \in DOMAIN prepared :
          LET tx == input[j]
              real == RealCommitments(tx)
              vector == prepared[j].commitments
          IN  /\ IsPowerOfTwo(Len(vector))
              /\ Len(vector) >= Len(real)
              /\ \A p \in 1..Len(vector) : (IsPowerOfTwo(p) /\ p >= Len(real))
                                              => Len(vector) <= p
              /\ SubSeq(vector, 1, Len(real)) = real
              /\ \A i \in Len(real) + 1..Len(vector) : vector[i].kind = "identity"

\* two source commitments and one transfer: one (identity, identity) pair
C18_Witness ==
    /\ op = "verify" /\ result = Ok
    /\ Len(prepared) = 1
    /\ Len(input[1].source_commitments) = 2
    /\ Len(input[1].data.transfers) = 1
    /\ Len(prepared[1].commitments) = 4
    /\ prepared[1].commitments[4].kind = "identity"

\* no padding needed
C18_WitnessExact ==
    /\ op = "verify_batch" /\ result = Ok
    /\ Len(prepared) = 2
    /\ Len(prepared[2].commitments) = 2
    /\ prepared[2].commitments[2].kind = "transfer"

C19_WitnessError ==
    /\ op = "verify_batch" /\ Len(input) = 2
    /\ rerun # <<>>
    /\ result = Proof("GenericProof")
    /\ rerun[1].result = result

\* two runs stopped by the same adapter error
C19_WitnessState ==
    /\ op = "verify_batch"
    /\ rerun # <<>>
    /\ result = Err("State")
    /\ state # pre_state

\* C20: mark_updated turns FetchedAt(t) into Updated(t) with the same t and
\* leaves Updated(t) and New unchanged; should_be_stored is false exactly for
\* FetchedAt, so after one or more mark_updated calls on any starting state
\* should_be_stored is true; no sequence of mark_updated calls reaches
\* FetchedAt or changes get_topoheight.
C20_VersionedState ==
    /\ \A k \in DOMAIN marked :
          /\ should_be_stored(marked[k]) <=> marked[k].kind # "FetchedAt"
          /\ get_topoheight(marked[k]) = get_topoheight(marked[1])
          /\ k > 1 => /\ should_be_stored(marked[k])
                      /\ marked[k].kind # "FetchedAt"
                      /\ marked[k - 1].kind = "FetchedAt"
                           => marked[k] = Updated(marked[k - 1].topoheight)
                      /\ marked[k - 1].kind = "Updated" => marked[k] = marked[k - 1]
                      /\ marked[k - 1].kind = "New"
                           => (marked[k] = New /\ is_new(marked[k]))
    /\ marked # <<>> => versioned = marked[Len(marked)]

\* FetchedAt(t), t > 0, marked twice
C20_Witness ==
    /\ Len(marked) = 3
    /\ marked[1].kind = "FetchedAt" /\ marked[1].topoheight > 0
    /\ ~should_be_stored(marked[1])
    /\ versioned = Updated(marked[1].topoheight)
    /\ should_be_stored(versioned)

\* New, marked
C20_WitnessNew ==
    /\ Len(marked) >= 2
    /\ marked[1] = New
    /\ is_new(versioned)
    /\ get_topoheight(versioned) = NoTopoheight

\* C21, as claimed: for every data value and every previous_topoheight,
\* reading the bytes produced by write gives back the same data and the same
\* previous_topoheight, and size() equals the number of bytes written.
C21_AsClaimed ==
    /\ \A k \in DOMAIN written : written[k].size = Len(written[k].bytes)
    /\ \A k \in DOMAIN readback :
          /\ readback[k].ok
          /\ readback[k].value = written[k].value

\* The bytes T::write produced are the bytes T::read takes: a u64 is; a
\* Versioned<u64> without previous_topoheight followed by more bytes is not
ReadsWhatItWrote(value) ==
    \/ value.type = "u64"
    \/ value.data.previous_topoheight.some
    \/ ~value.previous_topoheight.some

\* C21, amended: for every data value of a type T whose read takes exactly
\* the bytes its write produced, and every previous_topoheight in
\* {None, Some(t)}, reading the bytes produced by write gives back the same
\* data and the same previous_topoheight and leaves the reader empty (None is
\* written as no bytes and read back as None); size() equals the number of
\* bytes written for every T. When T::read takes more than T::write produced
\* (T a Versioned itself, written without previous_topoheight), the
\* previous_topoheight of the outer value is read into the inner one.
C21_RoundTrip ==
    /\ \A k \in DOMAIN written :
          /\ written[k].size = Len(written[k].bytes)
          /\ (written[k].value.type = "u64"
              /\ ~written[k].value.previous_topoheight.some)
                => written[k].bytes = u64_write(written[k].value.data)
    /\ \A k \in DOMAIN readback :
          /\ readback[k].ok
          /\ readback[k].reader = <<>>
          /\ ReadsWhatItWrote(written[k].value)
                <=> readback[k].value = written[k].value

\* a Versioned<u64> with a previous_topoheight of two significant bytes
C21_Witness ==
    /\ readback # <<>>
    /\ written[1].value.type = "u64"
    /\ written[1].value.previous_topoheight.some
    /\ written[1].value.previous_topoheight.topoheight > 256
    /\ written[1].value.data > 256
    /\ Len(written[1].bytes) = 2 * U64_SIZE
    /\ readback[1].value = written[1].value

\* a Versioned<u64> without previous_topoheight
C21_WitnessNone ==
    /\ readback # <<>>
    /\ written[1].value.type = "u64"
    /\ ~written[1].value.previous_topoheight.some
    /\ Len(written[1].bytes) = U64_SIZE
    /\ readback[1].value = written[1].value

\* a Versioned<Versioned<u64>>: Some(t) outside, None inside
C21_WitnessNested ==
    /\ readback # <<>>
    /\ written[1].value.type = "Versioned<u64>"
    /\ written[1].value.previous_topoheight.some
    /\ ~written[1].value.data.previous_topoheight.some
    /\ readback[1].ok
    /\ ~readback[1].value.previous_topoheight.some
    /\ readback[1].value.data.previous_topoheight
         = written[1].value.previous_topoheight

\* The transfers the contract asked for, in call order
RECURSIVE Requested(_)
Requested(tr) ==
    IF tr = <<>> THEN <<>>
    ELSE LET last == tr[Len(tr)]
             before == Requested(SubSeq(tr, 1, Len(tr) - 1))
         IN  IF last.fn = "transfer"
             THEN Append(before, TransferOutput(last.params[1].value,
                                                last.params[2].value,
                                                last.params[3].value))
             ELSE before

\* C22, as claimed: each call of transfer(destination, amount, asset) with a
\* ChainState in the context returns true and appends one TransferOutput with
\* those values, so ChainState.transfers is the sequence of requested
\* transfers in call order.
C22_AsClaimed ==
    context.some
    => /\ context.transfers = Requested(trace)
       /\ \A k \in DOMAIN trace :
             trace[k].fn = "transfer" => trace[k].ret = RetSome(BoolValue(TRUE))

\* transfer(bob, 1, XELIS) has been called with a ChainState in the context:
\* it returned an error and queued nothing
C22_Witness ==
    /\ context.some
    /\ trace # <<>>
    /\ trace[Len(trace)].fn = "transfer"
    /\ trace[Len(trace)].params
         = <<AddressValue("bob"), U64Value(1), HashValue(XELIS_ASSET)>>
    /\ ~trace[Len(trace)].ret.ok
    /\ trace[Len(trace)].ret.error = "expected a u64"
    /\ context.transfers = <<>>

\* What the calls tr[1..n] and the ContractStorage make of key: the value of
\* the last store, nothing after a delete, the ContractStorage's answer when
\* key was never written
RECURSIVE LastWritten(_, _, _)
LastWritten(tr, n, key) ==
    IF n = 0 THEN backing[key]
    ELSE IF tr[n].fn = "store" /\ tr[n].ret.ok /\ tr[n].params[1].value = key
    THEN SomeConstant(tr[n].params[2])
    ELSE IF tr[n].fn = "delete" /\ tr[n].ret.ok /\ tr[n].params[1].value = key
    THEN NoConstant
    ELSE LastWritten(tr, n - 1, key)

\* C23: after any sequence of storage.store and storage.delete calls in one
\* invocation, load(k) returns the last value stored for k, None if the last
\* operation on k was a delete even when the ContractStorage holds a value,
\* and the ContractStorage's answer when k was never written; has(k) equals
\* load(k).is_some().
C23_StorageOverlay ==
    context.some
    => /\ \A n \in DOMAIN trace :
             LET key == trace[n].params[1].value
             IN  /\ trace[n].fn = "load"
                    => trace[n].ret
                         = RetSome(OptionalValue(LastWritten(trace, n - 1, key).value))
                 /\ trace[n].fn = "has"
                    => trace[n].ret
                         = RetSome(BoolValue(LastWritten(trace, n - 1, key).some))
       /\ \A key \in StorageKeys :
             LET loaded == storage_load(<<U64Value(key)>>, context, backing).ret
                 has == storage_has(<<U64Value(key)>>, context, backing).ret
             IN  /\ loaded
                      = RetSome(OptionalValue(LastWritten(trace, Len(trace), key).value))
                 /\ has = RetSome(BoolValue(loaded.value[1].value # <<>>))

\* delete(1) then load(1) on a ContractStorage that holds a value under 1
C23_Witness ==
    /\ context.some
    /\ backing[1].some
    /\ Len(trace) >= 2
    /\ trace[Len(trace) - 1].fn = "delete"
    /\ trace[Len(trace) - 1].params = <<U64Value(1)>>
    /\ trace[Len(trace)].fn = "load"
    /\ trace[Len(trace)].params = <<U64Value(1)>>
    /\ trace[Len(trace)].ret = RetSome(OptionalValue(<<>>))

\* store(1, 7), store(1, 42), load(1)
C23_WitnessLastStore ==
    /\ Len(trace) = 3
    /\ trace[1].fn = "store" /\ trace[1].params = <<U64Value(1), U64Value(7)>>
    /\ trace[2].fn = "store" /\ trace[2].params = <<U64Value(1), U64Value(42)>>
    /\ trace[3].fn = "load" /\ trace[3].params = <<U64Value(1)>>
    /\ trace[3].ret = RetSome(OptionalValue(<<U64Value(42)>>))

\* load of a key never written
C23_WitnessMiss ==
    /\ context.some /\ backing[1].some
    /\ context.storage # <<>>
    /\ trace # <<>>
    /\ trace[Len(trace)].fn = "has"
    /\ trace[Len(trace)].params = <<U64Value(1)>>
    /\ 1 \notin DOMAIN context.storage
    /\ trace[Len(trace)].ret = RetSome(BoolValue(TRUE))

\* The native functions defined in contract/mod.rs
HostFunctions ==
    {"println", "debug", "get_contract_hash", "get_deposit_for_asset",
     "get_balance_for_asset", "transfer"}

\* C24, as claimed: every native function of the contract host (println,
\* debug, get_contract_hash, get_deposit_for_asset, get_balance_for_asset,
\* transfer) called with no ChainState in the VM context fails with the error
\* "chain state not found" and returns no value.
C24_AsClaimed ==
    ~entered.some
    => \A n \in DOMAIN trace :
          trace[n].fn \in HostFunctions
             => trace[n].ret = RetErr("chain state not found")

\* All of them but get_balance_for_asset do fail so
C24_OthersFail ==
    ~entered.some
    => /\ ~context.some
       /\ \A n \in DOMAIN trace :
             trace[n].fn \in HostFunctions \ {"get_balance_for_asset"}
                => trace[n].ret = RetErr("chain state not found")

\* get_balance_for_asset called with no ChainState in the context: Ok(None),
\* and the invocation goes on
C24_Witness ==
    /\ ~entered.some /\ ~context.some
    /\ Len(trace) >= 2
    /\ trace[1].fn = "get_balance_for_asset"
    /\ trace[1].ret = RetNone
    /\ trace[2].fn = "transfer"
    /\ trace[2].ret = RetErr("chain state not found")

\* The amount deposited for an asset, if any
DepositedFor(deposits, asset) ==
    IF \E i \in DOMAIN deposits : deposits[i].asset = asset
    THEN <<U64Value(deposits[CHOOSE i \in DOMAIN deposits :
                                  deposits[i].asset = asset].amount)>>
    ELSE <<>>

\* C25: get_deposit_for_asset(a) returns Some(amount) when the caller's
\* deposits map holds a Public(amount) deposit for a and None when it holds no
\* deposit for a, and it leaves the ChainState (transfers, storage) unchanged.
C25_GetDeposit ==
    context.some
    => /\ context.deposits = entered.deposits
       /\ \A n \in DOMAIN trace :
             trace[n].fn = "get_deposit_for_asset"
                => trace[n].ret
                     = RetSome(OptionalValue(
                           DepositedFor(entered.deposits, trace[n].params[1].value)))
       /\ \A asset \in Assets :
             LET done == get_deposit_for_asset(<<HashValue(asset)>>, context)
             IN  /\ done.context = context
                 /\ done.ret = RetSome(OptionalValue(
                                   DepositedFor(context.deposits, asset)))

\* deposits = {XELIS: Public(50)}: XELIS gives Some(50), TOKEN gives None, with
\* a storage overlay that the calls left alone
C25_Witness ==
    /\ context.some
    /\ context.deposits = <<PublicDeposit(XELIS_ASSET, 50)>>
    /\ Len(trace) = 3
    /\ trace[1].fn = "store"
    /\ trace[2].fn = "get_deposit_for_asset"
    /\ trace[2].params = <<HashValue(XELIS_ASSET)>>
    /\ trace[2].ret = RetSome(OptionalValue(<<U64Value(50)>>))
    /\ trace[3].fn = "get_deposit_for_asset"
    /\ trace[3].params = <<HashValue("TOKEN")>>
    /\ trace[3].ret = RetSome(OptionalValue(<<>>))
    /\ context.storage # <<>>

\* two deposits: the second one is found
C25_WitnessSecond ==
    /\ context.some
    /\ Len(context.deposits) = 2
    /\ trace # <<>>
    /\ trace[Len(trace)].fn = "get_deposit_for_asset"
    /\ trace[Len(trace)].params = <<HashValue(XELIS_ASSET)>>
    /\ trace[Len(trace)].ret = RetSome(OptionalValue(<<U64Value(50)>>))

C26_WitnessTransfer ==
    /\ replay # <<>>
    /\ context.some
    /\ Len(trace) >= 2
    /\ trace[Len(trace)].fn = "transfer"
    /\ Len(replay[1].rets) = Len(trace)
    /\ context.storage # <<>>

\* The payload of the transaction breaks a rule of its type: a Burn of
\* nothing, or a MultiSig payload with too many participants or a threshold
\* above their number
PayloadViolation(tx) ==
    \/ IsBurn(tx) /\ tx.data.amount = 0
    \/ /\ IsMultiSig(tx)
       /\ \/ Len(tx.data.participants) > MAX_MULTISIG_PARTICIPANTS
          \/ tx.data.threshold > Len(tx.data.participants)

PayloadErrors ==
    {Err("InvalidFormat"), Err("MultiSigParticipants"), Err("MultiSigThreshold")}

\* C27, as claimed: a Burn with amount == 0 and a MultiSig payload that
\* violates its bounds are rejected before any get_sender_balance subtraction
\* and any add_sender_output call, so at rejection no balance and no sender
\* output has changed.
C27_AsClaimed ==
    (/\ op = "verify"
     /\ PayloadViolation(input[1])
     /\ result \in PayloadErrors)
    => /\ CallsOf("get_sender_balance") = <<>>
       /\ CallsOf("add_sender_output") = <<>>
       /\ state.sender_balances = pre_state.sender_balances
       /\ state.sender_outputs = pre_state.sender_outputs

\* a Burn of nothing is rejected after the source commitments were debited
C27_Witness ==
    /\ op = "verify"
    /\ IsBurn(input[1]) /\ input[1].data.amount = 0
    /\ result = Err("InvalidFormat")
    /\ CallsOf("add_sender_output") # <<>>
    /\ state.sender_balances # pre_state.sender_balances
    /\ state.nonces # pre_state.nonces

\* The adapter calls through which pre_verify changes the state
Mutators ==
    {"update_account_nonce", "get_sender_balance", "add_sender_output",
     "get_receiver_balance", "set_multisig_state"}

Mutation(fn, key, asset) == [fn |-> fn, key |-> key, asset |-> asset]

\* The mutations pre_verify issued for the i-th transaction, in call order
MutationsOf(i) ==
    LET issued == SelectSeq(CallsFor(i), LAMBDA e : e.fn \in Mutators)
    IN  [k \in DOMAIN issued |-> Mutation(issued[k].fn, issued[k].key, issued[k].asset)]

\* The sender debits of a transaction: per source commitment, the balance
\* subtraction and then the sender output
SenderDebits(tx) ==
    [k \in 1..2 * Len(tx.source_commitments) |->
        Mutation(IF k % 2 = 1 THEN "get_sender_balance" ELSE "add_sender_output",
                 tx.source, tx.source_commitments[(k + 1) \div 2].asset)]

\* The mutations of the payload
PayloadMutations(tx) ==
    CASE IsTransfers(tx) ->
            [k \in DOMAIN tx.data.transfers |->
                Mutation("get_receiver_balance", tx.data.transfers[k].destination,
                         tx.data.transfers[k].asset)]
      [] IsBurn(tx) -> <<Mutation("get_receiver_balance", tx.source, tx.data.asset)>>
      [] OTHER -> <<Mutation("set_multisig_state", tx.source, "")>>

MutationOrder(tx) ==
    <<Mutation("update_account_nonce", tx.source, "")>>
        \o SenderDebits(tx) \o PayloadMutations(tx)

IsPrefix(p, q) == Len(p) <= Len(q) /\ p = SubSeq(q, 1, Len(p))

\* C28: within one transaction pre_verify issues its mutations in a fixed
\* order: the nonce write; then per source commitment, in source_commitments
\* order, the sender-balance subtraction and add_sender_output for that
\* asset; then the receiver credits in transfer order (or the burn credit, or
\* set_multisig_state). A pre_verify that fails has issued a prefix of that
\* sequence, so no receiver credit comes before the last sender debit.
C28_MutationOrder ==
    (op \in {"verify", "verify_batch"})
    => \A i \in DOMAIN input :
          /\ IsPrefix(MutationsOf(i), MutationOrder(input[i]))
          /\ PassedPreVerify(i) => MutationsOf(i) = MutationOrder(input[i])
          /\ \A k \in DOMAIN MutationsOf(i) :
                MutationsOf(i)[k].fn \in {"get_receiver_balance", "set_multisig_state"}
                   => k > 1 + 2 * Len(input[i].source_commitments)

\* two source commitments and two transfers, all issued
C28_Witness ==
    /\ op = "verify" /\ result = Ok
    /\ Len(input[1].source_commitments) = 2
    /\ IsTransfers(input[1]) /\ Len(input[1].data.transfers) = 2
    /\ input[1].source_commitments[1].asset # input[1].source_commitments[2].asset
    /\ Len(MutationsOf(1)) = 7

\* a transfer stopped after its debits: no receiver credit was issued
C28_WitnessStopped ==
    /\ op = "verify" /\ FailedPreVerify(1)
    /\ IsTransfers(input[1])
    /\ Len(MutationsOf(1)) = 1 + 2 * Len(input[1].source_commitments)
    /\ MutationsOf(1)[Len(MutationsOf(1))].fn = "add_sender_output"
    /\ calls[Len(calls)].ok

\* the second transaction of a batch, stopped at its second receiver credit
C28_WitnessBatch ==
    /\ op = "verify_batch" /\ Len(input) = 2
    /\ PassedPreVerify(1) /\ FailedPreVerify(2)
    /\ Len(MutationsOf(2)) = 7
    /\ MutationsOf(1) = MutationOrder(input[1])

\* a MultiSig setup: set_multisig_state comes last
C28_WitnessMultiSig ==
    /\ op = "verify" /\ result = Ok /\ IsMultiSig(input[1])
    /\ MutationsOf(1)[Len(MutationsOf(1))].fn = "set_multisig_state"

\* The configuration set_multisig_state stores for a payload
Installed(payload) ==
    IF payload.threshold = 0 /\ payload.participants = <<>>
    THEN NoMultiSig
    ELSE SomeMultiSig(payload.threshold, payload.participants)

\* The MultiSig transactions of the same source before the i-th of the input
SetupsBefore(i) ==
    {j \in 1..i - 1 : IsMultiSig(input[j]) /\ input[j].source = input[i].source}

\* The configuration in force when the i-th transaction is verified: the one
\* the latest MultiSig transaction of its source before it in the batch
\* installed, or the one the adapter started with
ConfigInForce(i) ==
    IF SetupsBefore(i) = {} THEN pre_state.multisig[input[i].source]
    ELSE LET j == CHOOSE j \in SetupsBefore(i) : \A l \in SetupsBefore(i) : l <= j
         IN  Installed(input[j].data)

\* The transaction is signed as the configuration asks
WellSigned(config, tx) ==
    IF config.some
    THEN /\ tx.multisig.some
         /\ Len(tx.multisig.sigs) = config.threshold
         /\ \A k \in DOMAIN tx.multisig.sigs : SigValidFor(config, tx.multisig.sigs[k])
    ELSE ~tx.multisig.some

C29_WitnessNotSigned ==
    /\ op = "verify_batch" /\ Len(input) = 2
    /\ ~pre_state.multisig["alice"].some
    /\ IsMultiSig(input[1]) /\ PassedPreVerify(1)
    /\ ~input[2].multisig.some
    /\ result = Err("MultiSigNotFound")

\* a replacement of a 2-of-2 configuration, signed by the two old participants
C29_WitnessReplace ==
    /\ op = "verify" /\ result = Ok
    /\ IsMultiSig(input[1])
    /\ pre_state.multisig["alice"] = SomeMultiSig(2, <<"bob", "alice">>)
    /\ Len(input[1].multisig.sigs) = 2
    /\ state.multisig["alice"] = SomeMultiSig(1, <<"bob">>)

Appended(label, value) == [label |-> label, value |-> value]

\* The appends that open the transcript of a transaction
TranscriptHeader(tx) ==
    <<Appended("version", tx.version), Appended("source_pubkey", tx.source),
      Appended("fee", ToString(tx.fee)), Appended("nonce", ToString(tx.nonce))>>

\* The appends of the source commitments: three per commitment, in order
TranscriptSources(tx) ==
    [k \in 1..3 * Len(tx.source_commitments) |->
        LET i == (k + 2) \div 3
        IN  CASE k % 3 = 1 -> Appended("new_commitment_eq_proof_domain_separator", "")
              [] k % 3 = 2 -> Appended("new_source_commitment_asset",
                                       tx.source_commitments[i].asset)
              [] OTHER -> Appended("new_source_commitment", ToString(i))]

\* The appends of the payload: five per transfer, in order; the threshold and
\* the participants of a MultiSig payload; none for a Burn
TranscriptPayload(tx) ==
    CASE IsTransfers(tx) ->
            [k \in 1..5 * Len(tx.data.transfers) |->
                LET i == (k + 4) \div 5
                IN  CASE k % 5 = 1 -> Appended("transfer_proof_domain_separator", "")
                      [] k % 5 = 2 -> Appended("dest_pubkey",
                                               tx.data.transfers[i].destination)
                      [] k % 5 = 3 -> Appended("amount_commitment", ToString(i))
                      [] k % 5 = 4 -> Appended("amount_sender_handle", ToString(i))
                      [] OTHER -> Appended("amount_receiver_handle", ToString(i))]
      [] IsMultiSig(tx) ->
            <<Appended("multisig_proof_domain_separator", ""),
              Appended("multisig_threshold", ToString(tx.data.threshold))>>
            \o [k \in DOMAIN tx.data.participants |->
                   Appended("multisig_participant", tx.data.participants[k])]
      [] OTHER -> <<>>

\* The last transaction of the input an operation came to
LastReached == Cardinality({i \in DOMAIN input : Reached(i)})

\* C30: the labelled appends pre_verify makes to the transcript are exactly:
\* version, source_pubkey, fee, nonce; then per source commitment in order the
\* eq-proof domain separator, new_source_commitment_asset and
\* new_source_commitment; then per transfer in order the transfer-proof domain
\* separator, dest_pubkey, amount_commitment, amount_sender_handle and
\* amount_receiver_handle, or for a MultiSig payload the multisig domain
\* separator, multisig_threshold and each multisig_participant. A pre_verify
\* that fails has made a prefix of them. apply_with_partial_verify makes the
\* same appends up to the end of the source commitments.
C30_TranscriptDiscipline ==
    /\ (op \in {"verify", "verify_batch"})
         => /\ \A j \in DOMAIN prepared :
                  prepared[j].transcript =
                      TranscriptHeader(input[j]) \o TranscriptSources(input[j])
                          \o TranscriptPayload(input[j])
            /\ LastReached >= 1
                 => IsPrefix(transcript,
                        TranscriptHeader(input[LastReached])
                            \o TranscriptSources(input[LastReached])
                            \o TranscriptPayload(input[LastReached]))
    /\ (op = "apply_with_partial_verify")
         => /\ IsPrefix(transcript,
                        TranscriptHeader(input[1]) \o TranscriptSources(input[1]))
            /\ (result = Ok \/ ReachedCommit \/ EventsOf("sigma_batch_verify") # {})
                 => transcript = TranscriptHeader(input[1]) \o TranscriptSources(input[1])

\* two source commitments and two transfers: 4 + 6 + 10 appends
C30_Witness ==
    /\ op = "verify" /\ result = Ok
    /\ Len(input[1].source_commitments) = 2
    /\ IsTransfers(input[1]) /\ Len(input[1].data.transfers) = 2
    /\ Len(prepared) = 1
    /\ Len(prepared[1].transcript) = 20
    /\ prepared[1].transcript[4].label = "nonce"
    /\ prepared[1].transcript[11].label = "transfer_proof_domain_separator"

\* a MultiSig payload with two participants
C30_WitnessMultiSig ==
    /\ op = "verify" /\ result = Ok
    /\ IsMultiSig(input[1]) /\ Len(input[1].data.participants) = 2
    /\ Len(prepared[1].transcript) = 4 + 3 + 2 + 2
    /\ prepared[1].transcript[11].label = "multisig_participant"

\* apply_with_partial_verify of a transfer from two source commitments: its
\* transcript is the first 4 + 6 appends of the one pre_verify makes
C30_WitnessPartial ==
    /\ op = "apply_with_partial_verify" /\ result = Ok
    /\ IsTransfers(input[1])
    /\ Len(input[1].source_commitments) = 2
    /\ Len(transcript) = 10
    /\ transcript = SubSeq(TranscriptHeader(input[1]) \o TranscriptSources(input[1])
                               \o TranscriptPayload(input[1]), 1, 10)

\* the second transaction of a batch stopped in the middle of its transcript
C30_WitnessStopped ==
    /\ op = "verify_batch" /\ Len(input) = 2
    /\ Len(prepared) = 1 /\ LastReached = 2
    /\ Len(transcript) > 4
    /\ Len(transcript) < 4 + 3 * Len(input[2].source_commitments)
                           + Len(TranscriptPayload(input[2]))

\* pre_verify of the i-th transaction wrote the nonce of its source
NonceBumped(i) ==
    \E k \in DOMAIN calls :
        /\ calls[k].tx = i /\ calls[k].fn = "update_account_nonce" /\ calls[k].ok

\* The error pre_verify of the i-th transaction returned was raised before the
\* nonce write was made: the format gate, the hook, the nonce read, the nonce
\* check or the nonce write itself
RaisedBeforeNonceWrite(i) ==
    \/ CallsFor(i) = <<>>
    \/ result.tag = "InvalidNonce"
    \/ result = Err("State") /\ Len(CallsFor(i)) <= 3

\* The transactions of the same source as the i-th
SameSource(i) == {j \in DOMAIN input : input[j].source = input[i].source}

\* C31: the nonce bump is not rolled back. When verify or verify_batch fails
\* at a transaction with an error raised after the nonce check (Commitments,
\* TransferCount, SenderIsReceiver, the extra-data errors, InvalidFormat of a
\* burn, InvalidSignature, the multisig errors, a proof error, an adapter
\* error in a later call), the stored nonce of its source is tx.nonce + 1.
\* When the batched proofs fail after every pre_verify has passed, the stored
\* nonce of every source is the nonce of its last transaction plus one.
C31_NonceNotRolledBack ==
    (op \in {"verify", "verify_batch"} /\ result # Ok)
    => \A i \in DOMAIN input :
          /\ (FailedPreVerify(i) /\ ~RaisedBeforeNonceWrite(i))
               => /\ NonceBumped(i)
                  /\ state.nonces[input[i].source] = input[i].nonce + 1
          /\ (FailedPreVerify(i) /\ NonceBumped(i))
               => state.nonces[input[i].source] = input[i].nonce + 1
          /\ (\A j \in DOMAIN input : PassedPreVerify(j))
               => /\ state.nonces[input[i].source] >= input[i].nonce + 1
                  /\ (\A j \in SameSource(i) : j <= i)
                       => state.nonces[input[i].source] = input[i].nonce + 1

\* a forged signature: the nonce stays bumped
C31_Witness ==
    /\ op = "verify" /\ result = Err("InvalidSignature")
    /\ pre_state.nonces[input[1].source] = input[1].nonce
    /\ state.nonces[input[1].source] = input[1].nonce + 1

\* the second transaction of a batch fails a multisig check
C31_WitnessBatch ==
    /\ op = "verify_batch" /\ Len(input) = 2
    /\ FailedPreVerify(2)
    /\ result = Err("MultiSigNotFound")
    /\ state.nonces[input[2].source] = input[2].nonce + 1
    /\ input[2].nonce = 1

\* the proofs of a batch are rejected after every pre_verify passed
C31_WitnessProof ==
    /\ op = "verify_batch" /\ Len(input) = 2
    /\ result.tag = "Proof"
    /\ PassedPreVerify(1) /\ PassedPreVerify(2)
    /\ input[1].source = input[2].source
    /\ state.nonces[input[1].source] = 2

\* the other errors of the list
C31_WitnessCommitments ==
    /\ op = "verify" /\ result = Err("Commitments") /\ NonceBumped(1)

C31_WitnessBurn ==
    /\ op = "verify" /\ result = Err("InvalidFormat") /\ NonceBumped(1)
    /\ IsBurn(input[1])

\* The adapter state pre_verify of the i-th transaction started from
StateBefore(i) == Replay(pre_state, calls, CallsBefore(calls, i))

AuthorisationErrors ==
    {Err("InvalidSignature"), Err("MultiSigNotFound"), Err("MultiSigParticipants"),
     Err("MultiSigNotConfigured")}

\* pre_verify of the i-th transaction was stopped by the signature of the
\* source or by the multisig enforcement: the signature is not the source's,
\* or the multisig section is not what the configuration in force asks
FailedAuthorisation(i) ==
    /\ FailedPreVerify(i)
    /\ result \in AuthorisationErrors
    /\ \/ input[i].signature # input[i].source
       \/ ~WellSigned(StateBefore(i).multisig[input[i].source], input[i])

\* C32: authorisation precedes balance changes. If pre_verify fails with
\* InvalidSignature for the source signature, or fails at the
\* multisig-verification stage (MultiSigNotFound, MultiSigParticipants,
\* InvalidSignature, MultiSigNotConfigured), no sender balance, receiver
\* balance, sender output or multisig config has been modified by it: only the
\* nonce write has happened.
C32_AuthorisationFirst ==
    (op \in {"verify", "verify_batch"})
    => \A i \in DOMAIN input :
          FailedAuthorisation(i)
          => /\ state = [StateBefore(i) EXCEPT
                            !.nonces[input[i].source] = input[i].nonce + 1]
             /\ state.sender_balances = StateBefore(i).sender_balances
             /\ state.receiver_balances = StateBefore(i).receiver_balances
             /\ state.sender_outputs = StateBefore(i).sender_outputs
             /\ state.multisig = StateBefore(i).multisig
             /\ MutationsOf(i) = <<Mutation("update_account_nonce", input[i].source, "")>>

\* a forged source signature
C32_Witness ==
    /\ op = "verify" /\ FailedAuthorisation(1)
    /\ input[1].signature = FORGED
    /\ result = Err("InvalidSignature")
    /\ state.nonces # pre_state.nonces

\* a second transaction of a batch without the multisig section the first
\* one made mandatory: what the first one changed stays, nothing more
C32_WitnessBatch ==
    /\ op = "verify_batch" /\ Len(input) = 2
    /\ IsMultiSig(input[1]) /\ PassedPreVerify(1)
    /\ FailedAuthorisation(2)
    /\ result = Err("MultiSigNotFound")
    /\ state.multisig # pre_state.multisig
    /\ state.sender_balances = StateBefore(2).sender_balances

\* a multisig signature that is not the participant's
C32_WitnessMultiSig ==
    /\ op = "verify" /\ FailedAuthorisation(1)
    /\ input[1].signature = input[1].source
    /\ result = Err("InvalidSignature")

C32_WitnessNotConfigured ==
    /\ op = "verify" /\ FailedAuthorisation(1)
    /\ result = Err("MultiSigNotConfigured")

C32_WitnessParticipants ==
    /\ op = "verify" /\ FailedAuthorisation(1)
    /\ result = Err("MultiSigParticipants")

\* What a transaction sends to a key in an asset
Received(tx, key, asset) ==
    IF ~IsTransfers(tx) THEN 0
    ELSE SumOf([i \in DOMAIN tx.data.transfers |-> tx.data.transfers[i].amount],
               {i \in DOMAIN tx.data.transfers :
                   /\ tx.data.transfers[i].destination = key
                   /\ tx.data.transfers[i].asset = asset})

\* C33: apply_with_partial_verify never reads or writes the account nonce and
\* never calls pre_verify_tx, whether it succeeds or fails. After it succeeds
\* the stored nonces are as before, while for every source commitment the
\* sender balance at tx.reference is down by what the transaction spends of
\* the asset and the sender output is up by it, every transfer is added to
\* the receiver balance of its destination, and a MultiSig payload is
\* installed as the multisig config of the source.
C33_PartialVerifyFrame ==
    (op = "apply_with_partial_verify")
    => LET tx == input[1] IN
       /\ \A k \in DOMAIN calls :
             calls[k].fn \notin {"pre_verify_tx", "get_account_nonce",
                                 "update_account_nonce"}
       /\ state.nonces = pre_state.nonces
       /\ result = Ok
            => /\ Len(CallsOf("add_sender_output")) = Len(tx.source_commitments)
               /\ Len(CallsOf("get_sender_balance")) = 2 * Len(tx.source_commitments)
               /\ Cardinality(CommittedAssets(tx)) = Len(tx.source_commitments)
                    => \A a \in CommittedAssets(tx) :
                          /\ state.sender_balances[tx.source][a][tx.reference]
                               = pre_state.sender_balances[tx.source][a][tx.reference]
                                 - Spent(tx, a)
                          /\ state.sender_outputs[tx.source][a]
                               = pre_state.sender_outputs[tx.source][a] + Spent(tx, a)
               /\ \A key \in AllKeys, a \in Assets :
                     state.receiver_balances[key][a]
                       = pre_state.receiver_balances[key][a] + Received(tx, key, a)
               /\ IF IsMultiSig(tx)
                  THEN /\ state.multisig[tx.source] = Installed(tx.data)
                       /\ calls[Len(calls)].fn = "set_multisig_state"
                  ELSE state.multisig = pre_state.multisig

\* a transfer of two assets applied: balances moved, nonce as it was
C33_Witness ==
    /\ op = "apply_with_partial_verify" /\ result = Ok
    /\ IsTransfers(input[1]) /\ Len(input[1].data.transfers) = 2
    /\ Len(input[1].source_commitments) = 2
    /\ state.nonces = pre_state.nonces
    /\ state.nonces["alice"] = input[1].nonce
    /\ state.sender_balances["alice"][XELIS_ASSET]["ref_a"] = InitBalance - 2
    /\ state.sender_outputs["alice"]["TOKEN"] = 2
    /\ state.receiver_balances["bob"]["TOKEN"] = 2

\* a MultiSig setup applied
C33_WitnessMultiSig ==
    /\ op = "apply_with_partial_verify" /\ result = Ok
    /\ IsMultiSig(input[1])
    /\ ~pre_state.multisig["alice"].some
    /\ state.multisig["alice"].some
    /\ state.nonces = pre_state.nonces

\* a transaction whose nonce is not the stored one is applied all the same
C33_WitnessStaleNonce ==
    /\ op = "apply_with_partial_verify" /\ result = Ok
    /\ input[1].nonce # pre_state.nonces[input[1].source]
    /\ state.sender_balances # pre_state.sender_balances

\* a failed run has not touched the nonce either
C33_WitnessFailed ==
    /\ op = "apply_with_partial_verify" /\ result # Ok
    /\ calls # <<>>
    /\ state.nonces = pre_state.nonces

\* The signatures of the multisig section carry pairwise distinct participant
\* indices
DistinctSigners(tx) ==
    \A k, l \in DOMAIN tx.multisig.sigs :
        k # l => tx.multisig.sigs[k].id # tx.multisig.sigs[l].id

\* C34, as claimed: a transaction from an account whose multisig config has
\* threshold t passes the multisig stage only if its t signatures come from t
\* pairwise distinct participant indices; t signatures that all carry the
\* same participant index do not satisfy a threshold t > 1.
C34_AsClaimed ==
    (ReachedMultiSig /\ calls[4].cfg.some /\ PassedMultiSig)
    => DistinctSigners(input[1])

\* 2-of-2 configured: the signature of the first participant, presented
\* twice under the same index, is accepted
C34_Witness ==
    /\ ReachedMultiSig
    /\ calls[4].cfg = SomeMultiSig(2, <<"bob", "alice">>)
    /\ input[1].multisig.sigs = <<SigId(0, "bob"), SigId(0, "bob")>>
    /\ PassedMultiSig
    /\ result = Ok

====
